---- MODULE Spec2Model ----
(***************************************************************************)
(* Switchboard: the Slack platform adapter (reference cache, Result-typed  *)
(* operations, lifecycle) and the Bot facade (start/stop, reply, event     *)
(* dispatch), modelled as a state machine.                                 *)
(*                                                                         *)
(* Asynchronous methods are split at their await points: the synchronous   *)
(* prefix of a method is one action, and each continuation after a         *)
(* transport call settles is another.  Operations waiting on the           *)
(* transport are the records of `pending`.                                 *)
(*                                                                         *)
(* The adapter's messageCache is an LRUCache of the lru-cache package,     *)
(* constructed with {max, ttl} only: get() of an entry older than ttl      *)
(* deletes it and returns undefined, get() of a live entry makes it the    *)
(* most recently used without renewing its age, set() renews the age and   *)
(* evicts the least recently used entry when max entries are resident,     *)
(* and max = 0 / ttl = 0 switch the respective limit off.                  *)
(***************************************************************************)
EXTENDS Integers, Sequences, FiniteSets, TLC

VARIABLES
    config,         \* SlackAdapter.config as left by the constructor
    app,            \* SlackAdapter.app: "null", "created" (App built), "running" (App started)
    messageCache,   \* SlackAdapter.messageCache, least recently used entry first
    cacheHits,      \* SlackAdapter.cacheHits
    cacheMisses,    \* SlackAdapter.cacheMisses
    now,            \* the clock the cache reads
    tickStep,       \* milliseconds the clock advances per Tick
    ticks,          \* number of Ticks taken
    pending,        \* adapter calls suspended at an await on the transport
    bot,            \* the Bot facade: existence, credentials, handler sets
    dispatch,       \* handleEvent invocations in progress
    log,            \* the finished dispatch of the event emitted last, if it has finished
    adapters,       \* AdapterRegistry.adapters: per platform the registered adapter
    registryLog,    \* the register and clear calls made on the registry, in order
    made,           \* the createBot call made last: adapter chosen, connect issued, outcome
    discord,        \* the DiscordAdapter: client, listeners awaiting a fetch, events emitted
    last            \* what the last step called and returned

vars == <<config, app, messageCache, cacheHits, cacheMisses, now, tickStep,
          ticks, pending, bot, dispatch, log, adapters, registryLog, made, discord, last>>

adapterVars == <<config, app, messageCache, cacheHits, cacheMisses, pending>>
botVars == <<bot, dispatch, log>>
clockVars == <<now, tickStep, ticks>>
registryVars == <<adapters, registryLog, made>>

-----------------------------------------------------------------------------
(* Bounds *)

MaxTicks == 2           \* clock advances per behaviour
MaxResolutions == 2     \* string-ref resolutions (cacheHits + cacheMisses)
MaxPending == 2         \* operations waiting on the transport at once
MaxHandlers == 2        \* handlers registered per event key
MaxMembers == 1         \* members a conversations.members response lists
MaxRegistryCalls == 3   \* register and clear calls per behaviour
MaxOccurrences == 3     \* occurrences the Discord gateway delivers per behaviour
MaxBots == 2            \* Bots created with createBot per behaviour
MaxNesting == 2         \* Results nested in a Result
MaxOverlap == 2         \* events being dispatched at once

(* Program constants *)

DefaultCacheSize == 1000
DefaultCacheTTL == 3600000
StatsInterval == 1000       \* resolutions between two hit-rate observations

-----------------------------------------------------------------------------
(* Values *)

Undefined == "undefined"
Absent == "absent"

MsgIds == {"m1", "m2", "m3"}
Channels == {"c1", "c2"}

NoOpt == [tag |-> Absent, n |-> 0]          \* key not present in the object
UndefOpt == [tag |-> Undefined, n |-> 0]    \* key present, value undefined
Num(n) == [tag |-> "number", n |-> n]

\* The SlackConfig the adapter is constructed with, and the milliseconds the
\* clock advances per Tick: a millisecond against a configured TTL of 1 ms,
\* an hour and a millisecond against the default TTL.
Scenarios ==
    { [config |-> [cacheSize |-> Num(2), cacheTTL |-> Num(1)],   step |-> 1],
      [config |-> [cacheSize |-> Num(1), cacheTTL |-> UndefOpt], step |-> DefaultCacheTTL + 1] }

\* new SlackAdapter(), as the package registers it on import.
RegisteredScenario ==
    [config |-> [cacheSize |-> NoOpt, cacheTTL |-> NoOpt], step |-> DefaultCacheTTL + 1]

\* The messages of the workspace: id, channel and thread.
Messages ==
    { [id |-> "m1", channelId |-> "c1", threadId |-> Undefined],
      [id |-> "m2", channelId |-> "c2", threadId |-> "m1"],
      [id |-> "m3", channelId |-> "c1", threadId |-> Undefined] }

\* Timestamps the transport gives to messages the adapter posts.
ResponseIds == {"m3"}

-----------------------------------------------------------------------------
(* SlackAdapter.constructor *)

\* JavaScript `x || d` on an optional number.
OrDefault(x, d) == IF x.tag = "number" /\ x.n # 0 THEN x ELSE Num(d)

\* { cacheSize: config.cacheSize || 1000, cacheTTL: config.cacheTTL || 3600000, ...config }
\* the spread copies every key present in config over the defaulted one.
SpreadOver(defaulted, x) == IF x.tag = Absent THEN defaulted ELSE x

\* socketMode, when the caller's object has it, is "true" or "false".
Constructor(c) ==
    [cacheSize |-> SpreadOver(OrDefault(c.cacheSize, DefaultCacheSize), c.cacheSize),
     cacheTTL  |-> SpreadOver(OrDefault(c.cacheTTL, DefaultCacheTTL), c.cacheTTL),
     socketMode |-> IF "socketMode" \in DOMAIN c THEN c.socketMode ELSE Absent]

\* new LRUCache({max: this.config.cacheSize, ttl: this.config.cacheTTL}):
\* an undefined option counts as 0, and 0 switches the limit off.
CacheMax == IF config.cacheSize.tag = "number" THEN config.cacheSize.n ELSE 0
CacheTtl == IF config.cacheTTL.tag = "number" THEN config.cacheTTL.n ELSE 0

\* LRUCache's constructor throws when neither max nor ttl is given.
Constructible(c) ==
    LET k == Constructor(c) IN
        \/ (k.cacheSize.tag = "number" /\ k.cacheSize.n # 0)
        \/ (k.cacheTTL.tag = "number" /\ k.cacheTTL.n # 0)

-----------------------------------------------------------------------------
(* LRUCache operations used by the adapter *)

RECURSIVE IndexOf(_, _, _)
IndexOf(c, k, i) ==
    IF i > Len(c) THEN 0
    ELSE IF c[i].key = k THEN i
    ELSE IndexOf(c, k, i + 1)

Has(c, k) == IndexOf(c, k, 1) # 0
Entry(c, k) == c[IndexOf(c, k, 1)]
Without(c, k) == SelectSeq(c, LAMBDA e : e.key # k)
Keys(c) == { c[i].key : i \in 1..Len(c) }

IsStale(e) == CacheTtl # 0 /\ now - e.start > CacheTtl

\* Variant: a hit yields the context of the least recently used entry.
CacheGetHead(c, k) ==
    IF ~Has(c, k) THEN [value |-> Undefined, cache |-> c, outcome |-> "absent"]
    ELSE IF IsStale(Entry(c, k))
         THEN [value |-> Undefined, cache |-> Without(c, k), outcome |-> "expired"]
         ELSE [value |-> Head(c).channelId,
               cache |-> Append(Without(c, k), Entry(c, k)),
               outcome |-> "hit"]

\* messageCache.get(k): the value (or Undefined) and the cache afterwards.
CacheGet(c, k) ==
    IF ~Has(c, k) THEN [value |-> Undefined, cache |-> c, outcome |-> "absent"]
    ELSE IF IsStale(Entry(c, k))
         THEN [value |-> Undefined, cache |-> Without(c, k), outcome |-> "expired"]
         ELSE [value |-> Entry(c, k).channelId,
               cache |-> Append(Without(c, k), Entry(c, k)),
               outcome |-> "hit"]

\* Variant: a full cache pushes out its most recently used entry.
CacheSetEvictNewest(c, k, channelId, threadId) ==
    LET e == [key |-> k, channelId |-> channelId, threadId |-> threadId, start |-> now]
    IN  IF Has(c, k) THEN Append(Without(c, k), e)
        ELSE IF CacheMax # 0 /\ Len(c) >= CacheMax
             THEN Append(SubSeq(c, 1, Len(c) - 1), e)
        ELSE Append(c, e)

\* messageCache.set(k, {channelId, threadId, timestamp})
CacheSet(c, k, channelId, threadId) ==
    LET e == [key |-> k, channelId |-> channelId, threadId |-> threadId, start |-> now]
    IN  IF Has(c, k) THEN Append(Without(c, k), e)
        ELSE IF CacheMax # 0 /\ Len(c) >= CacheMax THEN Append(Tail(c), e)
        ELSE Append(c, e)

\* Variant: delete leaves the entry where it is.
CacheDeleteNothing(c, k) == c

\* messageCache.delete(k)
CacheDelete(c, k) == Without(c, k)

\* messageCache.clear()
CacheClear == <<>>

-----------------------------------------------------------------------------
(* Normalization *)

\* JavaScript `a || b` on optional strings.
OrStr(a, b) == IF a = Undefined \/ a = "" THEN b ELSE a

\* slackMessage.f, undefined when the object has no property f.
Prop(raw, f) == IF f \in DOMAIN raw THEN raw[f] ELSE Undefined

\* normalizeMessage(slackMessage): only the fields the adapter and the Bot read.
\*   id: slackMessage.ts || slackMessage.message_ts || slackMessage.event_ts
\*   channelId: slackMessage.channel || slackMessage.channel_id || ''
normalizeMessage(raw) ==
    [id |-> OrStr(Prop(raw, "ts"), OrStr(Prop(raw, "message_ts"), Prop(raw, "event_ts"))),
     channelId |-> OrStr(Prop(raw, "channel"), OrStr(Prop(raw, "channel_id"), "")),
     threadId |-> Prop(raw, "thread_ts")]

\* Variant: an id that has an entry keeps it.
cacheMessageIfAbsent(c, message) ==
    IF Has(c, message.id) THEN c
    ELSE CacheSet(c, message.id, message.channelId, message.threadId)

\* cacheMessage(message)
cacheMessage(c, message) == CacheSet(c, message.id, message.channelId, message.threadId)

-----------------------------------------------------------------------------
(* JavaScript values and the Result type *)

\* Values functions are given, return and throw: undefined, null, strings,
\* numbers, plain objects, objects without a prototype (Object.create(null))
\* and Error instances (class and message).
JsUndefined == [type |-> "undefined", s |-> "", n |-> 0]
JsNull == [type |-> "null", s |-> "", n |-> 0]
JsString(s) == [type |-> "string", s |-> s, n |-> 0]
JsNumber(n) == [type |-> "number", s |-> "", n |-> n]
JsObject == [type |-> "object", s |-> "", n |-> 0]
JsBareObject == [type |-> "bare", s |-> "", n |-> 0]
ErrorValue(class, message) == [type |-> "error", s |-> message, n |-> 0, class |-> class]

\* error instanceof Error
InstanceOfError(x) == "type" \in DOMAIN x /\ x.type = "error"

\* String(x) throws a TypeError for an object that has neither toString nor
\* valueOf to convert it with.
StringThrows(x) == "type" \in DOMAIN x /\ x.type = "bare"

\* String(x) for the other values; a Result is a plain object.
StringOf(x) ==
    IF "type" \notin DOMAIN x THEN "[object Object]"
    ELSE CASE x.type = "string" -> x.s
           [] x.type = "undefined" -> "undefined"
           [] x.type = "null" -> "null"
           [] x.type = "number" -> (CASE x.n = 0 -> "0" [] x.n = 42 -> "42" [] OTHER -> "NaN")
           [] x.type = "error" -> x.class
           [] OTHER -> "[object Object]"

\* ok(value): { ok: true, value }
ok(value) == [ok |-> TRUE, value |-> value]

\* Variant: the error is returned under the success flag.
errFlaggedOk(error) == [ok |-> TRUE, error |-> error]

\* err(error): { ok: false, error }
err(error) == [ok |-> FALSE, error |-> error]

\* isOk(result): result.ok === true
isOk(result) == result.ok = TRUE

\* isErr(result): result.ok === false
isErr(result) == result.ok = FALSE

\* What a function passed to wrapAsync does when called: it returns a
\* promise that resolves with v or rejects with v, or it throws v.
Fn(kind, v) == [kind |-> kind, v |-> v]

\* How the promise of an async function settles.
Resolved(value) == [state |-> "resolved", with |-> value]
Rejected(reason) == [state |-> "rejected", with |-> reason]

\* wrapAsync(fn): `try { return ok(await fn()) } catch (error) { return
\* err(error instanceof Error ? error : new Error(String(error))) }`. What
\* the catch block throws, nothing catches: it rejects wrapAsync's promise.
wrapAsync(fn) ==
    IF fn.kind = "resolves" THEN Resolved(ok(fn.v))
    ELSE IF InstanceOfError(fn.v) THEN Resolved(err(fn.v))
    ELSE IF StringThrows(fn.v)
         THEN Rejected(ErrorValue("TypeError", "Cannot convert object to primitive value"))
    ELSE Resolved(err(ErrorValue("Error", StringOf(fn.v))))

-----------------------------------------------------------------------------
(* Call records *)

NoArgument == [defined |-> FALSE, botToken |-> "none", appToken |-> "none",
               signingSecret |-> "none"]

NoReply == [id |-> Undefined, channelId |-> Undefined, threadId |-> Undefined,
            toChannel |-> Undefined, toThread |-> Undefined,
            given |-> <<>>, passed |-> <<>>]

\* What the last step called and what it returned to its caller:
\*   op, via    the method; "adapter" when called on the adapter, "bot" when
\*              called through the Bot method that delegates to it
\*   phase      "call" (synchronous prefix) or "done" (continuation after the transport)
\*   ref        the MessageRef variant: "string", "full", or "none"
\*   res, cause "pending", "ok", the error class of a failure Result, or
\*              "raised:<class>" for a rejection; cause tells the failures apart
\*   lookup     the outcome of messageCache.get in this step: "none" (not
\*              called), "hit", "absent" or "expired"
\*   reply      for a call made by Bot.reply: the message replied to (id,
\*              channelId, threadId) and the channel and thread passed on
\*   with       for a call of adapter.connect: the credentials passed
\*   evicted    for a step that caches a message: the keys it pushed out
\*   replaced   for a step that caches a message: whether its id had an entry
\*   message    the UnifiedMessage a step returns in its Result or hands to
\*              the handlers (id, channelId, threadId)
\*   error      for a failure Result: the error object it carries
\*   observed   for a resolution: what logCacheStats wrote to the console
\*   handled    for an inbound event: how many times the adapter's forEach
\*              called a closure of the Bot with it
\*   transport  for a connect that built its App: the transport the App was
\*              given, "socket" (socketMode and appToken) or "events"
\*              (signingSecret)
\*   given, returned, answer
\*              for a call of ok, err, isOk, isErr or wrapAsync: the argument,
\*              the Result returned and the boolean returned ("true", "false")
NoMessage == [id |-> Undefined, channelId |-> Undefined, threadId |-> Undefined]

NoError == [class |-> "none", platform |-> Absent, idFrom |-> "none", says |-> {}]

\* Nothing written to the console.
NoObservation == [emitted |-> FALSE, rate |-> 0, hits |-> 0, total |-> 0]

NoCall == [op |-> "none", via |-> "none", phase |-> "none", ref |-> "none",
           res |-> "none", cause |-> "none", lookup |-> "none", reply |-> NoReply,
           with |-> NoArgument, evicted |-> {}, replaced |-> FALSE, message |-> NoMessage,
           error |-> NoError, observed |-> NoObservation, handled |-> 0,
           given |-> JsUndefined, returned |-> JsUndefined, answer |-> "none",
           transport |-> "none"]

\* What the cause of a cache-miss failure says: every operation names the
\* condition and the solution; editMessage also lists when it happens.
CacheMissSays(op) ==
    {"channel context not found", "pass the full message object"}
    \cup IF op = "editMessage"
         THEN {"cache expired", "bot restarted", "sent by another instance"}
         ELSE {}

\* What the message of `new Error(...)` says at each place a failure is built.
CauseSays(op, cause) ==
    IF cause = "context not found" THEN CacheMissSays(op) ELSE {cause}

\* The expression the error's identifier argument is taken from at each
\* place a typed error is built; "'unknown'" is the string literal.
IdFrom(op, ref, cause) ==
    IF op \in {"sendMessage", "uploadFile"} THEN "channelId"
    ELSE IF op = "createThread"
    THEN IF cause = "context not found" THEN "'unknown'"
         ELSE IF cause = "transport threw"
         THEN IF ref = "string" THEN "'unknown'" ELSE "messageRef.channelId"
         ELSE "channelId"
    ELSE IF cause = "context not found" THEN "messageRef" ELSE "messageId"

\* The error of a failure Result.  The typed errors of errors.ts record the
\* platform and build their message from the operation, the identifier, the
\* platform and the cause's message; ConnectionError takes no identifier;
\* getChannels and getUsers return the plain Error.
ErrorOf(op, ref, res, cause) ==
    IF res = "ConnectionError"
    THEN [class |-> res, platform |-> "slack", idFrom |-> "none",
          says |-> {"operation", "platform"} \cup CauseSays(op, cause)]
    ELSE IF res = "Error"
    THEN [class |-> res, platform |-> Absent, idFrom |-> "none",
          says |-> CauseSays(op, cause)]
    ELSE IF res \in {"MessageSendError", "MessageEditError", "MessageDeleteError",
                     "ReactionError"}
    THEN [class |-> res, platform |-> "slack", idFrom |-> IdFrom(op, ref, cause),
          says |-> {"operation", "platform", "identifier"} \cup CauseSays(op, cause)]
    ELSE NoError

Call(op, via, phase, ref, res, cause, lookup) ==
    [op |-> op, via |-> via, phase |-> phase, ref |-> ref, res |-> res,
     cause |-> cause, lookup |-> lookup, reply |-> NoReply, with |-> NoArgument,
     evicted |-> {}, replaced |-> FALSE, message |-> NoMessage,
     error |-> ErrorOf(op, ref, res, cause), observed |-> NoObservation, handled |-> 0,
     given |-> JsUndefined, returned |-> JsUndefined, answer |-> "none",
     transport |-> "none"]

\* An operation suspended at its transport call.  stage names the request
\* awaited; left counts the members whose users.info request getUsers has
\* still to issue after the one awaited.
Pend(op, via, ref, id, channelId, threadId, stage) ==
    [op |-> op, via |-> via, ref |-> ref, id |-> id, channelId |-> channelId,
     threadId |-> threadId, stage |-> stage, left |-> 0]

OpsPending == { p \in pending : p.op \notin {"connect", "disconnect"} }
LifecyclePending == { p \in pending : p.op \in {"connect", "disconnect"} }

CanSuspend == Cardinality(OpsPending) < MaxPending

\* The call reaches its await: it joins the calls in flight (no two of which
\* are the same call).
Suspend(p) ==
    /\ CanSuspend
    /\ p \notin pending
    /\ pending' = pending \cup {p}

StringRef(m) == [kind |-> "string", id |-> m, channelId |-> Undefined, threadId |-> Undefined]
FullRef(message) == [kind |-> "full", id |-> message.id, channelId |-> message.channelId,
                     threadId |-> message.threadId]
\* The refs callers pass: every id as a string, the message m1 in full.
Refs == { StringRef(m) : m \in MsgIds }
        \cup { FullRef(message) : message \in { x \in Messages : x.id = "m1" } }

\* A call through a Bot needs that Bot: "bot" is the first one constructed,
\* "bot2" the second.
CallerOk(via) ==
    /\ via = "bot" => bot.exists
    /\ via = "bot2" => Len(bot.bound) >= 2

-----------------------------------------------------------------------------
(* AdapterRegistry *)

Platforms == {"slack", "discord"}

\* Adapter instances: the one a platform package registers on import, and
\* two more that callers construct.
AdapterIds == {"imported", "a1", "a2"}

\* new Map()
NoAdapters == [p \in Platforms |-> Absent]

\* Variant: the first adapter registered for a platform stays.
MapSetKeepsFirst(m, k, v) == IF m[k] = Absent THEN [m EXCEPT ![k] = v] ELSE m

\* Map.set(k, v)
MapSet(m, k, v) == [m EXCEPT ![k] = v]

\* registry.get(platform): Map.get, undefined for a missing key
get(platform) == IF adapters[platform] = Absent THEN Undefined ELSE adapters[platform]

\* registry.has(platform)
has(platform) == adapters[platform] # Absent

\* The registry after `import '@switchboard/slack'`, which registers a new
\* SlackAdapter.
SlackImported == MapSet(NoAdapters, "slack", "imported")

\* No createBot call made yet.
NoCreate == [platform |-> "none", custom |-> Undefined, chosen |-> Undefined,
             connects |-> <<>>, res |-> "none", bound |-> Undefined]

\* The Discord adapter as constructed: no client, no handler, nothing
\* delivered.
\*   client         "null", "created" (Client built, listeners set), "ready"
\*   connecting     where connect() is suspended: "none", "login", "ready"
\*   eventHandlers  the Set of handlers, in insertion order
\*   delivered      the occurrences the gateway delivered, in order
\*   waiting        listeners suspended at a fetch: occurrence and stage
\*   calls          the handler calls emitEvent made, in order
\*   ops            message operations suspended at a request of the client
\*   overlap        where a connect() called during another connect() is
\*                  suspended: "none", "login", "ready"
\*   old            the Client that connect() replaced in this.client while
\*                  it was alive: "none", "created", "ready"
\*   waits          the Client whose ready event the first connect() waits
\*                  for: "current" (this.client), "old", or "never" (a
\*                  Client whose login failed)
NoDiscord == [client |-> "null", connecting |-> "none", eventHandlers |-> <<>>,
              delivered |-> <<>>, waiting |-> {}, calls |-> <<>>, ops |-> {},
              overlap |-> "none", old |-> "none", waits |-> "current"]

-----------------------------------------------------------------------------
(* Initial state: the adapter as constructed, a Bot not yet started *)

\* Credentials objects: SlackCredentials with optional fields, or the value
\* undefined itself (defined = FALSE).
Creds(botToken, appToken, signingSecret) ==
    [defined |-> TRUE, botToken |-> botToken, appToken |-> appToken,
     signingSecret |-> signingSecret]
NoCredentials == [defined |-> FALSE, botToken |-> Undefined, appToken |-> Undefined,
                  signingSecret |-> Undefined]
SocketCredentials == Creds("xoxb", "xapp", Undefined)
EventsCredentials == Creds("xoxb", Undefined, "secret")
CredentialSet == { SocketCredentials, EventsCredentials,
                   Creds("xoxb", Undefined, Undefined),
                   Creds(Undefined, Undefined, Undefined) }

\* Bot.eventHandlers: per key the handlers in insertion order.
NoHandlers == [k \in {"message", "reaction", "*"} |-> <<>>]

\* supplied: the credentials given when the bot was created (what the caller
\* passed; not a field of Bot); credentials: the field Bot.credentials.
\* bound: the adapter of every Bot constructed so far (Bot.adapter), in
\* order of construction; the fields before it are those of the first one.
\* subscribed: how many of the closures in the adapter's eventHandlers were
\* added by the first Bot.  cycle: "stopped" once a stop() of the Bot has
\* completed, "restarted" once a start() has connected it again after that.
NoBot == [exists |-> FALSE, supplied |-> NoCredentials, credentials |-> NoCredentials,
          handlers |-> NoHandlers, bound |-> <<>>, subscribed |-> 0, cycle |-> "none"]

\* new Bot(adapter, 'slack', c) on the registered adapter: the constructor
\* keeps its arguments and calls adapter.onEvent once.
NewBot(c) == [exists |-> TRUE, supplied |-> c, credentials |-> c,
              handlers |-> NoHandlers, bound |-> <<"imported">>, subscribed |-> 1,
              cycle |-> "none"]

\* No event dispatched yet.
NoDispatch == [type |-> "none", phase |-> "wild", pos |-> 0, invoked |-> <<>>,
               reported |-> 0, status |-> "none", regT |-> 0, regW |-> 0]

InitAdapter(scenarios) ==
    /\ \E s \in scenarios :
          /\ Constructible(s.config)
          /\ config = Constructor(s.config)
          /\ tickStep = s.step
    /\ app = "null"
    /\ messageCache = <<>>
    /\ cacheHits = 0
    /\ cacheMisses = 0
    /\ now = 0
    /\ ticks = 0
    /\ pending = {}
    /\ dispatch = <<>>
    /\ log = NoDispatch
    /\ adapters = SlackImported
    /\ registryLog = <<[op |-> "register", platform |-> "slack", adapter |-> "imported"]>>
    /\ made = NoCreate
    /\ discord = NoDiscord
    /\ last = NoCall

\* The adapter on its own: no Bot is constructed on it.
Init ==
    /\ InitAdapter(Scenarios)
    /\ bot = NoBot

\* The adapter with a Bot: either createBot is still to be called, or the
\* Bot was constructed directly, new Bot(adapter, 'slack', c).
InitBot ==
    /\ InitAdapter({RegisteredScenario})
    /\ \/ bot = NoBot
       \/ \E c \in CredentialSet : bot = NewBot(c)

\* The clock advances.
Tick ==
    /\ ticks < MaxTicks
    /\ ticks' = ticks + 1
    /\ now' = now + tickStep
    /\ last' = NoCall
    /\ UNCHANGED <<adapterVars, botVars, tickStep, registryVars, discord>>

-----------------------------------------------------------------------------
(* SlackAdapter: operations taking a MessageRef *)

\* Variant: every ref is looked up in the cache by its id.
IsStringRefAlways(ref) == ref.kind \in {"string", "full"}

\* typeof messageRef === 'string'
IsStringRef(ref) == ref.kind = "string"

\* Variant: the guard returns a plain Error.
NotConnectedUntyped(op, via, ref) ==
    Call(op, via, "call", ref, "Error", "Not connected", "none")

\* `if (!this.app) return err(new ConnectionError('slack', new Error('Not connected')))`
NotConnected(op, via, ref) ==
    Call(op, via, "call", ref, "ConnectionError", "Not connected", "none")

\* ((hits / total) * 100).toFixed(1), in tenths of a percent: the quotient
\* rounded to the nearest tenth.  (A quotient exactly halfway between two
\* tenths goes the way the double nearest to it lies; it takes a total that
\* is a multiple of 2000 and is given here as rounded up.)
hitRate(hits, total) ==
    LET q == (hits * 1000) \div total
        r == (hits * 1000) % total
    IN  IF 2 * r >= total THEN q + 1 ELSE q

\* Variant: the total is tested as it was before the resolution was counted.
logCacheStatsLate(hits, misses) ==
    LET total == hits + misses IN
    IF total - 1 > 0 /\ (total - 1) % StatsInterval = 0
    THEN [emitted |-> TRUE, rate |-> hitRate(hits, total), hits |-> hits, total |-> total]
    ELSE NoObservation

\* logCacheStats(), called with the counters as the resolution has left
\* them: the line written to the console, if any, is
\* `Slack cache hit rate: ${hitRate}% (${cacheHits}/${total})`.
logCacheStats(hits, misses) ==
    LET total == hits + misses IN
    IF total > 0 /\ total % StatsInterval = 0
    THEN [emitted |-> TRUE, rate |-> hitRate(hits, total), hits |-> hits, total |-> total]
    ELSE NoObservation

\* The resolutions of a behaviour are those around a multiple of the
\* interval: MaxResolutions from the multiple on, and as many up to it.
CanResolve ==
    LET t == (cacheHits + cacheMisses) % StatsInterval
    IN  t < MaxResolutions \/ t >= StatsInterval - MaxResolutions

\* The common prefix of editMessage, deleteMessage, addReaction, removeReaction
\* and createThread: the connection guard, then the resolution of the ref.
\* missKind is the error class of the operation's "context not found" failure.
ResolveRef(op, missKind, ref, via) ==
    /\ CallerOk(via)
    /\ UNCHANGED <<config, app, botVars, clockVars, registryVars, discord>>
    /\ IF app = "null"
       THEN /\ last' = NotConnected(op, via, ref.kind)
            /\ UNCHANGED <<messageCache, cacheHits, cacheMisses, pending>>
       ELSE IF IsStringRef(ref)
       THEN LET context == CacheGet(messageCache, ref.id) IN
            /\ CanResolve
            /\ messageCache' = context.cache
            /\ IF context.value = Undefined
               THEN /\ cacheMisses' = cacheMisses + 1
                    /\ last' = [Call(op, via, "call", ref.kind, missKind,
                                     "context not found", context.outcome)
                                EXCEPT !.observed = logCacheStats(cacheHits, cacheMisses + 1)]
                    /\ UNCHANGED <<cacheHits, pending>>
               ELSE /\ Suspend(Pend(op, via, ref.kind, ref.id, context.value, Undefined,
                                    "request"))
                    /\ cacheHits' = cacheHits + 1
                    /\ last' = [Call(op, via, "call", ref.kind, "pending", "none",
                                     context.outcome)
                                EXCEPT !.observed = logCacheStats(cacheHits + 1, cacheMisses)]
                    /\ UNCHANGED cacheMisses
       ELSE /\ Suspend(Pend(op, via, ref.kind, ref.id, ref.channelId, Undefined,
                            "request"))
            /\ last' = Call(op, via, "call", ref.kind, "pending", "none", "none")
            /\ UNCHANGED <<messageCache, cacheHits, cacheMisses>>

editMessage(ref, via) == ResolveRef("editMessage", "MessageEditError", ref, via)
deleteMessage(ref, via) == ResolveRef("deleteMessage", "MessageDeleteError", ref, via)
addReaction(ref, via) == ResolveRef("addReaction", "ReactionError", ref, via)
removeReaction(ref, via) == ResolveRef("removeReaction", "ReactionError", ref, via)
createThread(ref, via) == ResolveRef("createThread", "MessageSendError", ref, via)

-----------------------------------------------------------------------------
(* SlackAdapter: operations addressed by channel *)

\* options.threadId values callers pass to sendMessage.
ThreadOptions == {Undefined, "m1"}

\* sendMessage(channelId, text, options) up to `await chat.postMessage(...)`.
\* options.threadId is the thread_ts of the request (no slack.thread_ts option
\* is modelled).  replied records the message when Bot.reply makes the call.
sendMessageCall(channelId, threadId, via, replied) ==
    /\ CallerOk(via)
    /\ UNCHANGED <<config, app, messageCache, cacheHits, cacheMisses, botVars, clockVars, registryVars, discord>>
    /\ IF app = "null"
       THEN /\ last' = [NotConnected("sendMessage", via, "none") EXCEPT !.reply = replied]
            /\ UNCHANGED pending
       ELSE /\ Suspend(Pend("sendMessage", via, "none", Undefined, channelId, threadId,
                            "request"))
            /\ last' = [Call("sendMessage", via, "call", "none", "pending", "none", "none")
                        EXCEPT !.reply = replied]

sendMessage(channelId, threadId, via) == sendMessageCall(channelId, threadId, via, NoReply)

\* uploadFile(channelId, file, options): not implemented, fails without a request.
uploadFile(channelId, via) ==
    /\ CallerOk(via)
    /\ UNCHANGED <<adapterVars, botVars, clockVars, registryVars, discord>>
    /\ last' = IF app = "null"
               THEN NotConnected("uploadFile", via, "none")
               ELSE Call("uploadFile", via, "call", "none", "MessageSendError",
                         "not implemented", "none")

\* getChannels() up to `await conversations.list(...)`.
getChannels(via) ==
    /\ CallerOk(via)
    /\ UNCHANGED <<config, app, messageCache, cacheHits, cacheMisses, botVars, clockVars, registryVars, discord>>
    /\ IF app = "null"
       THEN /\ last' = NotConnected("getChannels", via, "none")
            /\ UNCHANGED pending
       ELSE /\ Suspend(Pend("getChannels", via, "none", Undefined, Undefined, Undefined,
                            "list"))
            /\ last' = Call("getChannels", via, "call", "none", "pending", "none", "none")

\* getUsers(channelId?) up to `await conversations.members(...)` or `await users.list(...)`.
getUsers(channelId, via) ==
    /\ CallerOk(via)
    /\ UNCHANGED <<config, app, messageCache, cacheHits, cacheMisses, botVars, clockVars, registryVars, discord>>
    /\ IF app = "null"
       THEN /\ last' = NotConnected("getUsers", via, "none")
            /\ UNCHANGED pending
       ELSE /\ Suspend(Pend("getUsers", via, "none", Undefined, channelId, Undefined,
                             IF OrStr(channelId, Undefined) = Undefined
                             THEN "list" ELSE "members"))
            /\ last' = Call("getUsers", via, "call", "none", "pending", "none", "none")

-----------------------------------------------------------------------------
(* SlackAdapter: continuations after the transport settles *)

\* How a transport request settles: a success response, a response with
\* ok = false (or without the expected payload), or a thrown exception.
TransportOutcomes == {"ok", "error", "throw"}

\* Variant: the exception leaves the method.
Uncaught(kind) == "raised:Error"

\* `catch (error) { return err(...) }` around the body of every operation:
\* whatever is thrown inside the try block comes back as a failure Result.
Caught(kind) == kind

Done(p, res, cause) == Call(p.op, p.via, "done", p.ref, res, cause, "none")

Failure(p, kind, outcome) ==
    IF outcome = "throw" THEN Done(p, Caught(kind), "transport threw")
    ELSE Done(p, kind, "transport error")

\* sendMessage after chat.postMessage settles; the response message has
\* timestamp ts and carries a channel field or not.
sendMessageDone(p, outcome, ts, withChannel) ==
    /\ p \in pending /\ p.op = "sendMessage"
    /\ pending' = pending \ {p}
    /\ UNCHANGED <<config, app, cacheHits, cacheMisses, botVars, clockVars, registryVars, discord>>
    /\ IF outcome = "ok"
       THEN LET raw == [ts |-> ts, thread_ts |-> p.threadId,
                        channel |-> IF withChannel THEN p.channelId ELSE Undefined]
                normalized == normalizeMessage(raw)
                unifiedMessage == IF normalized.channelId = ""
                                  THEN [normalized EXCEPT !.channelId = p.channelId]
                                  ELSE normalized
            IN  /\ messageCache' = cacheMessage(messageCache, unifiedMessage)
                /\ last' = [Done(p, "ok", "none") EXCEPT
                               !.evicted = Keys(messageCache) \ Keys(messageCache'),
                               !.replaced = Has(messageCache, unifiedMessage.id),
                               !.message = unifiedMessage]
       ELSE /\ last' = Failure(p, "MessageSendError", outcome)
            /\ UNCHANGED messageCache

\* editMessage after chat.update settles; the response message is that of
\* the message edited and carries a channel field or not.  It is returned
\* as normalized and is not cached.
editMessageDoneWith(p, outcome, withChannel) ==
    /\ p \in pending /\ p.op = "editMessage"
    /\ pending' = pending \ {p}
    /\ UNCHANGED <<config, app, messageCache, cacheHits, cacheMisses, botVars, clockVars, registryVars, discord>>
    /\ last' = IF outcome = "ok"
               THEN LET raw == [ts |-> p.id, thread_ts |-> p.threadId,
                                channel |-> IF withChannel THEN p.channelId ELSE Undefined]
                    IN  [Done(p, "ok", "none") EXCEPT !.message = normalizeMessage(raw)]
               ELSE Failure(p, "MessageEditError", outcome)

editMessageDone(p, outcome) == editMessageDoneWith(p, outcome, TRUE)

\* Variant: the entry is removed however chat.delete settles.
deleteMessageDoneForgets(p, outcome) ==
    /\ p \in pending /\ p.op = "deleteMessage"
    /\ pending' = pending \ {p}
    /\ UNCHANGED <<config, app, cacheHits, cacheMisses, botVars, clockVars, registryVars, discord>>
    /\ messageCache' = CacheDelete(messageCache, p.id)
    /\ last' = IF outcome = "ok" THEN Done(p, "ok", "none")
               ELSE Failure(p, "MessageDeleteError", outcome)

\* deleteMessage after chat.delete settles.
deleteMessageDone(p, outcome) ==
    /\ p \in pending /\ p.op = "deleteMessage"
    /\ pending' = pending \ {p}
    /\ UNCHANGED <<config, app, cacheHits, cacheMisses, botVars, clockVars, registryVars, discord>>
    /\ IF outcome = "ok"
       THEN /\ messageCache' = CacheDelete(messageCache, p.id)
            /\ last' = Done(p, "ok", "none")
       ELSE /\ last' = Failure(p, "MessageDeleteError", outcome)
            /\ UNCHANGED messageCache

\* addReaction / removeReaction after reactions.add / reactions.remove settles.
reactionDone(p, outcome) ==
    /\ p \in pending /\ p.op \in {"addReaction", "removeReaction"}
    /\ pending' = pending \ {p}
    /\ UNCHANGED <<config, app, messageCache, cacheHits, cacheMisses, botVars, clockVars, registryVars, discord>>
    /\ last' = IF outcome = "ok" THEN Done(p, "ok", "none")
               ELSE Failure(p, "ReactionError", outcome)

\* createThread after chat.postMessage settles: the reply is cached as
\* normalized, without the channel fix-up sendMessage applies.
createThreadDone(p, outcome, ts, withChannel) ==
    /\ p \in pending /\ p.op = "createThread"
    /\ pending' = pending \ {p}
    /\ UNCHANGED <<config, app, cacheHits, cacheMisses, botVars, clockVars, registryVars, discord>>
    /\ IF outcome = "ok"
       THEN LET raw == [ts |-> ts, thread_ts |-> p.id,
                        channel |-> IF withChannel THEN p.channelId ELSE Undefined]
                unifiedMessage == normalizeMessage(raw)
            IN  /\ messageCache' = cacheMessage(messageCache, unifiedMessage)
                /\ last' = [Done(p, "ok", "none") EXCEPT
                               !.evicted = Keys(messageCache) \ Keys(messageCache'),
                               !.replaced = Has(messageCache, unifiedMessage.id),
                               !.message = unifiedMessage]
       ELSE /\ last' = Failure(p, "MessageSendError", outcome)
            /\ UNCHANGED messageCache

\* getChannels after conversations.list settles.
getChannelsDone(p, outcome) ==
    /\ p \in pending /\ p.op = "getChannels"
    /\ pending' = pending \ {p}
    /\ UNCHANGED <<config, app, messageCache, cacheHits, cacheMisses, botVars, clockVars, registryVars, discord>>
    /\ last' = IF outcome = "ok" THEN Done(p, "ok", "none")
               ELSE Failure(p, "Error", outcome)

\* The next round of getUsers' loop over result.members: with no member left
\* the users are returned; otherwise `this.app.client.users.info` is evaluated,
\* which throws a TypeError inside the try block when disconnect() has set
\* this.app to null in the meantime.
getUsersLoop(p, left) ==
    IF left = 0
    THEN /\ pending' = pending \ {p}
         /\ last' = Done(p, "ok", "none")
    ELSE IF app = "null"
    THEN /\ pending' = pending \ {p}
         /\ last' = Done(p, Caught("Error"), "this.app is null")
    ELSE /\ pending' = (pending \ {p}) \cup {[p EXCEPT !.stage = "info", !.left = left - 1]}
         /\ last' = Done(p, "pending", "none")

\* getUsers after users.list, conversations.members (listing `members`
\* member ids) or one users.info request settles.
getUsersDone(p, outcome, members) ==
    /\ p \in pending /\ p.op = "getUsers"
    /\ UNCHANGED <<config, app, messageCache, cacheHits, cacheMisses, botVars, clockVars, registryVars, discord>>
    /\ IF outcome = "throw"
       THEN /\ pending' = pending \ {p}
            /\ last' = Failure(p, "Error", outcome)
       ELSE IF p.stage = "list"
       THEN /\ pending' = pending \ {p}
            /\ last' = IF outcome = "ok" THEN Done(p, "ok", "none")
                       ELSE Failure(p, "Error", outcome)
       ELSE IF p.stage = "members"
       THEN IF outcome = "ok"
            THEN getUsersLoop(p, members)
            ELSE /\ pending' = pending \ {p}
                 /\ last' = Failure(p, "Error", outcome)
       ELSE getUsersLoop(p, p.left)

-----------------------------------------------------------------------------
(* SlackAdapter lifecycle *)

isConnected == app # "null"

NoLifecyclePending == LifecyclePending = {}

\* An exception of connect leaves through the caller: createBot wraps
\* whatever connect throws in a ConnectionError.
connectRaise(caller, class) ==
    IF caller = "createBot" THEN "raised:ConnectionError" ELSE class

\* `const useSocketMode = !!(slackCreds.appToken || this.config.socketMode)`
useSocketMode(credentials) ==
    credentials.appToken # Undefined \/ config.socketMode = "true"

\* connect(credentials) up to `await this.app.start()`.  caller is "adapter",
\* "start" (Bot.start) or "createBot".
connectCall(credentials, caller) ==
    /\ NoLifecyclePending
    /\ UNCHANGED <<config, messageCache, cacheHits, cacheMisses, dispatch, log, clockVars, registryVars, discord>>
    /\ IF ~credentials.defined
       THEN \* slackCreds.botToken on undefined: TypeError before the try block
            /\ last' = [Call("connect", caller, "call", "none",
                             connectRaise(caller, "raised:TypeError"),
                             "credentials undefined", "none")
                        EXCEPT !.with = credentials]
            /\ UNCHANGED <<app, pending>>
       ELSE IF credentials.botToken = Undefined
       THEN /\ last' = [Call("connect", caller, "call", "none", "raised:ConnectionError",
                             "bot token required", "none")
                        EXCEPT !.with = credentials]
            /\ UNCHANGED <<app, pending>>
       ELSE IF useSocketMode(credentials) /\ credentials.appToken = Undefined
       THEN /\ last' = [Call("connect", caller, "call", "none", "raised:ConnectionError",
                             "appToken required for Socket Mode", "none")
                        EXCEPT !.with = credentials]
            /\ UNCHANGED <<app, pending>>
       ELSE IF ~useSocketMode(credentials) /\ credentials.signingSecret = Undefined
       THEN /\ last' = [Call("connect", caller, "call", "none", "raised:ConnectionError",
                             "appToken or signingSecret required", "none")
                        EXCEPT !.with = credentials]
            /\ UNCHANGED <<app, pending>>
       ELSE /\ app' = "created"
            /\ pending' = pending \cup
                  {Pend("connect", caller, "none", Undefined, Undefined, Undefined, "start")}
            /\ last' = [Call("connect", caller, "call", "none", "pending", "none", "none")
                        EXCEPT !.with = credentials,
                               !.transport = IF useSocketMode(credentials)
                                             THEN "socket" ELSE "events"]

connect(credentials) == connectCall(credentials, "adapter") /\ UNCHANGED bot

\* Variant: Bot.start subscribes the Bot to its adapter again.
startSubscribes(b) == [b EXCEPT !.subscribed = @ + 1]

\* Bot.start() once its connect has completed: nothing is added to the
\* adapter's eventHandlers.
startSubscription(b) == b

\* The Bot that `new Bot(adapter, config.platform)` of createBot constructs
\* on this adapter: no credentials argument, one call of adapter.onEvent.
\* A Bot constructed when there is one already has fields of its own.
createdBot(b) ==
    IF b.exists
    THEN [b EXCEPT !.bound = Append(@, "imported")]
    ELSE [b EXCEPT !.exists = TRUE, !.credentials = NoCredentials,
                   !.bound = Append(@, "imported"), !.subscribed = @ + 1]

\* connect after app.start() settles.  When createBot was the caller it then
\* returns `new Bot(adapter, config.platform)`: no credentials argument.
connectDone(p, outcome) ==
    /\ p \in pending /\ p.op = "connect"
    /\ outcome \in {"ok", "throw"}
    /\ pending' = pending \ {p}
    /\ UNCHANGED <<config, messageCache, cacheHits, cacheMisses, dispatch, log, clockVars, registryVars, discord>>
    /\ IF outcome = "ok"
       THEN /\ app' = "running"
            /\ last' = Done(p, "ok", "none")
            /\ bot' = IF p.via = "createBot" THEN createdBot(bot)
                      ELSE IF p.via = "start"
                      THEN [startSubscription(bot) EXCEPT
                               !.cycle = IF @ = "stopped" THEN "restarted" ELSE @]
                      ELSE bot
       ELSE /\ last' = Done(p, "raised:ConnectionError", "start failed")
            /\ UNCHANGED <<app, bot>>

\* disconnect() up to `await this.app.stop()`; without an app it only clears
\* the cache.
disconnect(caller) ==
    /\ NoLifecyclePending
    /\ UNCHANGED <<config, app, cacheHits, cacheMisses, botVars, clockVars, registryVars, discord>>
    /\ IF app # "null"
       THEN /\ pending' = pending \cup
                  {Pend("disconnect", caller, "none", Undefined, Undefined, Undefined, "stop")}
            /\ last' = Call("disconnect", caller, "call", "none", "pending", "none", "none")
            /\ UNCHANGED messageCache
       ELSE /\ messageCache' = CacheClear
            /\ last' = Call("disconnect", caller, "call", "none", "ok", "none", "none")
            /\ UNCHANGED pending

\* Variant: a disconnect that completes starts the counters afresh.
disconnectDoneResets(p, outcome) ==
    /\ p \in pending /\ p.op = "disconnect"
    /\ outcome \in {"ok", "throw"}
    /\ pending' = pending \ {p}
    /\ UNCHANGED <<config, botVars, clockVars, registryVars, discord>>
    /\ IF outcome = "ok"
       THEN /\ app' = "null"
            /\ messageCache' = CacheClear
            /\ cacheHits' = 0 /\ cacheMisses' = 0
            /\ last' = Done(p, "ok", "none")
       ELSE /\ last' = Done(p, "raised:Error", "stop failed")
            /\ UNCHANGED <<app, messageCache, cacheHits, cacheMisses>>

\* disconnect after app.stop() settles.
disconnectDone(p, outcome) ==
    /\ p \in pending /\ p.op = "disconnect"
    /\ outcome \in {"ok", "throw"}
    /\ pending' = pending \ {p}
    /\ UNCHANGED <<config, cacheHits, cacheMisses, dispatch, log, clockVars, registryVars, discord>>
    /\ IF outcome = "ok"
       THEN /\ app' = "null"
            /\ messageCache' = CacheClear
            /\ bot' = IF p.via = "stop" /\ bot.cycle = "none"
                      THEN [bot EXCEPT !.cycle = "stopped"] ELSE bot
            /\ last' = Done(p, "ok", "none")
       ELSE /\ last' = Done(p, "raised:Error", "stop failed")
            /\ UNCHANGED <<app, messageCache, bot>>

\* adapter.disconnect() called directly
adapterDisconnect == disconnect("adapter")

-----------------------------------------------------------------------------
(* createBot and the Bot lifecycle *)

\* createBot({platform: 'slack', credentials}): the registered adapter is
\* connected with `config.credentials || {}` before the Bot is constructed.
createBot(credentials) ==
    /\ ~bot.exists
    /\ connectCall(credentials, "createBot")
    /\ bot' = [bot EXCEPT !.supplied = credentials]

\* Bot.start()
start ==
    /\ bot.exists
    /\ IF isConnected
       THEN /\ last' = Call("start", "bot", "call", "none", "ok", "already connected", "none")
            /\ UNCHANGED <<adapterVars, botVars, clockVars, registryVars, discord>>
       ELSE connectCall(bot.credentials, "start") /\ UNCHANGED bot

\* Bot.stop()
stop ==
    /\ bot.exists
    /\ disconnect("stop")

\* Messages callers reply to: unthreaded, threaded, and with an empty thread id.
ReplyMessages ==
    { [id |-> "m1", channelId |-> "c1", threadId |-> Undefined],
      [id |-> "m2", channelId |-> "c2", threadId |-> "m1"],
      [id |-> "m3", channelId |-> "c1", threadId |-> ""] }

\* Variant: { threadId, ...options }, the caller's thread id wins.
ReplyOptionsCallerWins(options, threadId) ==
    [k \in DOMAIN options \cup {"threadId"} |->
        IF k \in DOMAIN options THEN options[k] ELSE threadId]

\* { ...options, threadId }: the own properties of options (none when
\* options is undefined), then threadId, which replaces the caller's.
ReplyOptions(options, threadId) ==
    [k \in DOMAIN options \cup {"threadId"} |->
        IF k = "threadId" THEN threadId ELSE options[k]]

\* Variant: every reply starts a thread on the message replied to.
ReplyThreadOwnId(message) == message.id

\* const threadId = message.threadId || message.id
ReplyThread(message) == OrStr(message.threadId, message.id)

\* Bot.reply(message, text, options)
reply(message, options) ==
    LET threadId == ReplyThread(message)
        passed == ReplyOptions(options, threadId)
    IN  sendMessageCall(message.channelId, passed.threadId, "bot",
                        [id |-> message.id, channelId |-> message.channelId,
                         threadId |-> message.threadId,
                         toChannel |-> message.channelId, toThread |-> passed.threadId,
                         given |-> options, passed |-> passed])

-----------------------------------------------------------------------------
(* Bot: handler registration and event dispatch *)

Handlers == {"h1", "h2", "h3"}

\* What a handler does when invoked: returns (or resolves), throws
\* synchronously, or returns a promise that rejects.
Behaviour(h) == CASE h = "h1" -> "returns" [] h = "h2" -> "throws" [] OTHER -> "rejects"

InSeq(q, x) == \E i \in 1..Len(q) : q[i] = x

\* Bot.on(eventType, handler): Set.add keeps insertion order and ignores a
\* function that is already a member.
on(eventType, handler, fresh) ==
    /\ bot.exists
    /\ Len(bot.handlers[eventType]) < MaxHandlers
    /\ bot' = IF ~fresh /\ InSeq(bot.handlers[eventType], handler)
              THEN bot
              ELSE [bot EXCEPT !.handlers[eventType] = Append(@, handler)]
    /\ last' = NoCall
    /\ UNCHANGED <<adapterVars, dispatch, log, clockVars, registryVars, discord>>

\* onMessage / onReaction wrap the handler in a new closure on every call;
\* onEvent adds the handler itself.
onMessage(handler) == on("message", handler, TRUE)
onReaction(handler) == on("reaction", handler, TRUE)
onEvent(handler) == on("*", handler, FALSE)

\* Variant: a handler's exception leaves handleEvent.
HandlerEscapes(behaviour) == IF behaviour = "returns" THEN "continue" ELSE "escaped"

\* try { await handler(event) } catch (error) { console.error(...) }:
\* whatever the handler does, the loop goes on.
HandlerSettled(behaviour) == IF behaviour = "returns" THEN "continue" ELSE "reported"

\* handleEvent from the point where it (re)enters a loop until it suspends at
\* the next `await handler(event)` or returns.  d.pos handlers of the phase's
\* Set have been visited; both Sets are iterated live, and the wildcard Set is
\* fetched when the type loop is over.
\* Variant: the wildcard handlers are fetched first, the type's handlers last.
PhaseKeyWildFirst(d) == IF d.phase = "type" THEN "*" ELSE d.type

\* this.eventHandlers.get(event.type) in the first loop, get('*') in the second.
PhaseKey(d) == IF d.phase = "type" THEN d.type ELSE "*"

RECURSIVE Advance(_, _)
Advance(d, handlers) ==
    LET key == PhaseKey(d) IN
    IF d.pos < Len(handlers[key])
    THEN LET h == handlers[key][d.pos + 1]
             settled == HandlerSettled(Behaviour(h))
         IN  [d EXCEPT !.pos = d.pos + 1,
                       !.invoked = Append(@, [key |-> key, pos |-> d.pos + 1, h |-> h]),
                       !.reported = IF settled = "reported" THEN @ + 1 ELSE @,
                       !.status = IF settled = "escaped" THEN "escaped" ELSE "awaiting"]
    ELSE IF d.phase = "type"
    THEN Advance([d EXCEPT !.phase = "wild", !.pos = 0], handlers)
    ELSE [d EXCEPT !.status = "returned"]

\* handleEvent(event) as called, synchronously, by the adapter's forEach.
\* regT / regW remember how many handlers were registered when it started.
handleEvent(type) ==
    Advance([type |-> type, phase |-> "type", pos |-> 0, invoked |-> <<>>,
             reported |-> 0, status |-> "awaiting",
             regT |-> Len(bot.handlers[type]), regW |-> Len(bot.handlers["*"])],
            bot.handlers)

Finished(d) == d.status \in {"returned", "escaped"}

\* The adapter's forEach over its eventHandlers: the Bot's subscription, when
\* a Bot was constructed on the adapter.  Events arrive one after the other:
\* the next one when the dispatch of the previous one is over.
Emit(type) ==
    IF bot.exists
    THEN LET d == handleEvent(type) IN
         IF Finished(d)
         THEN /\ log' = d
              /\ UNCHANGED dispatch
         ELSE /\ dispatch = <<>>
              /\ dispatch' = [i \in 1..bot.subscribed |-> d]
              /\ log' = NoDispatch
    ELSE UNCHANGED <<dispatch, log>>

\* Inbound raw Slack messages: the messages of the workspace, and one with a
\* subtype.
InboundMessages ==
    { [ts |-> m.id, channel |-> m.channelId, thread_ts |-> m.threadId, subtype |-> Undefined]
        : m \in Messages }
    \cup { [ts |-> "m3", channel |-> "c2", thread_ts |-> Undefined, subtype |-> "bot_message"] }

\* The same forEach while earlier events are still being dispatched: the
\* listener does not wait for the promise the Bot's closure returns, so the
\* run of handleEvent for this event joins those in progress, behind them.
EmitOverlapping(type) ==
    IF bot.exists
    THEN LET d == handleEvent(type) IN
         IF Finished(d)
         THEN /\ log' = d
              /\ UNCHANGED dispatch
         ELSE /\ Len(dispatch) < MaxOverlap
              /\ dispatch' = dispatch \o [i \in 1..bot.subscribed |-> d]
              /\ UNCHANGED log
    ELSE UNCHANGED <<dispatch, log>>

\* Variant: the listener hands the message to the handlers and caches nothing.
onSlackMessageThenUncached(message, emitted) ==
    /\ app = "running"
    /\ UNCHANGED <<config, app, cacheHits, cacheMisses, pending, bot, clockVars, registryVars, discord>>
    /\ IF message.subtype # Undefined
       THEN /\ last' = NoCall
            /\ UNCHANGED <<messageCache, dispatch, log>>
       ELSE /\ UNCHANGED messageCache
            /\ last' = [NoCall EXCEPT !.op = "message",
                                      !.message = normalizeMessage(message),
                                      !.handled = bot.subscribed]
            /\ emitted

\* The app.message listener of setupEventListeners; emitted is its forEach.
onSlackMessageThen(message, emitted) ==
    /\ app = "running"
    /\ UNCHANGED <<config, app, cacheHits, cacheMisses, pending, bot, clockVars, registryVars, discord>>
    /\ IF message.subtype # Undefined
       THEN /\ last' = NoCall
            /\ UNCHANGED <<messageCache, dispatch, log>>
       ELSE /\ messageCache' = cacheMessage(messageCache, normalizeMessage(message))
            /\ last' = [NoCall EXCEPT !.op = "message",
                                      !.evicted = Keys(messageCache) \ Keys(messageCache'),
                                      !.replaced = Has(messageCache, message.ts),
                                      !.message = normalizeMessage(message),
                                      !.handled = bot.subscribed]
            /\ emitted

onSlackMessage(message) == onSlackMessageThen(message, Emit("message"))

\* The app.event('reaction_added' / 'reaction_removed') listeners; emitted
\* is their forEach.
onSlackReactionThen(emitted) ==
    /\ app = "running"
    /\ last' = [NoCall EXCEPT !.op = "reaction", !.handled = bot.subscribed]
    /\ UNCHANGED <<adapterVars, bot, clockVars, registryVars, discord>>
    /\ emitted

onSlackReaction == onSlackReactionThen(Emit("reaction"))

\* handleEvent resumes after an awaited handler has settled.
handleEventResume(i) ==
    /\ i \in 1..Len(dispatch)
    /\ LET d == Advance(dispatch[i], bot.handlers)
           rest == SubSeq(dispatch, 1, i - 1) \o SubSeq(dispatch, i + 1, Len(dispatch))
       IN  IF Finished(d)
           THEN /\ log' = d
                /\ dispatch' = rest
           ELSE /\ dispatch' = [dispatch EXCEPT ![i] = d]
                /\ UNCHANGED log
    /\ last' = NoCall
    /\ UNCHANGED <<adapterVars, bot, clockVars, registryVars, discord>>

-----------------------------------------------------------------------------
(* Specifications *)

\* The caller awaits each operation before it starts the next one.
Idle == OpsPending = {}

\* Transport requests that come back with a response.
Settled == {"ok", "error"}

\* The reference cache: the adapter's MessageRef operations and sendMessage
\* called one at a time, the clock advancing between calls, inbound messages
\* at any moment, connect and disconnect.
Next ==
    \/ Idle /\ Tick
    \/ connect(SocketCredentials)
    \/ adapterDisconnect
    \/ \E p \in pending : connectDone(p, "ok")
    \/ \E p \in pending : disconnectDone(p, "ok")
    \/ \E r \in Refs : Idle /\ editMessage(r, "adapter")
    \/ \E r \in Refs : Idle /\ deleteMessage(r, "adapter")
    \/ \E r \in Refs : Idle /\ addReaction(r, "adapter")
    \/ \E r \in Refs : Idle /\ removeReaction(r, "adapter")
    \/ \E r \in Refs : Idle /\ createThread(r, "adapter")
    \/ Idle /\ sendMessage("c1", Undefined, "adapter")
    \/ \E p \in pending, o \in Settled, ts \in ResponseIds :
            sendMessageDone(p, o, ts, TRUE)
    \/ \E p \in pending, o \in Settled : editMessageDone(p, o)
    \/ \E p \in pending, o \in Settled : deleteMessageDone(p, o)
    \/ \E p \in pending, o \in Settled : reactionDone(p, o)
    \/ \E p \in pending, o \in Settled, ts \in ResponseIds :
            createThreadDone(p, o, ts, TRUE)
    \/ \E m \in InboundMessages : onSlackMessage(m)

Spec == Init /\ [][Next]_vars

-----------------------------------------------------------------------------
(* The reference cache: properties of Spec *)

RefOps == {"editMessage", "deleteMessage", "addReaction", "removeReaction", "createThread"}

\* The error class of each operation's "context not found" failure.
CacheMissKind(op) ==
    CASE op = "editMessage" -> "MessageEditError"
      [] op = "deleteMessage" -> "MessageDeleteError"
      [] op \in {"addReaction", "removeReaction"} -> "ReactionError"
      [] OTHER -> "MessageSendError"

\* The TTL a configuration stands for: cacheTTL, an hour when it is not given.
PromisedTTL == OrDefault(config.cacheTTL, DefaultCacheTTL).n

Age(m) == now - Entry(messageCache, m).start

\* This step is a call of a MessageRef operation with the string ref m,
\* made on the adapter or through the Bot.
ResolvesVia(m, via) ==
    \/ editMessage(StringRef(m), via)
    \/ deleteMessage(StringRef(m), via)
    \/ addReaction(StringRef(m), via)
    \/ removeReaction(StringRef(m), via)
    \/ createThread(StringRef(m), via)

Resolves(m) == ResolvesVia(m, "adapter")

\* This step belongs to a MessageRef operation called with a full message.
FullRefStep == last'.op \in RefOps /\ last'.ref = "full"

\* The step neither looks a key up nor fails for a missing context, and the
\* counters stay as they are.
NoCacheRead ==
    /\ last'.lookup = "none"
    /\ last'.cause # "context not found"
    /\ cacheHits' = cacheHits
    /\ cacheMisses' = cacheMisses

Succeeds(op) == last'.op = op /\ last'.phase = "done" /\ last'.res = "ok"

\* messageCache' is messageCache with one message cached now: the new entry
\* is the most recently used, an older entry of the same key is gone, and at
\* most the least recently used entry made room.
InsertsReply ==
    /\ messageCache' # <<>>
    /\ LET new == messageCache'[Len(messageCache')]
           kept == SubSeq(messageCache', 1, Len(messageCache') - 1)
           others == SelectSeq(messageCache, LAMBDA e : e.key # new.key)
       IN  /\ new.key \in ResponseIds
           /\ new.start = now
           /\ \/ kept = others
              \/ others # <<>> /\ kept = Tail(others)

\* C1 (as stated): an operation called with a full message never fails for a
\* missing context, never reads the cache, and leaves cacheHits, cacheMisses
\* and the cache's entries and their recency order unchanged.
C1_FullRefLeavesCacheUntouched ==
    [][FullRefStep => NoCacheRead /\ messageCache' = messageCache]_vars

\* C1 (amended): an operation called with a full message never fails for a
\* missing context, never looks a key up and leaves cacheHits and cacheMisses
\* unchanged; the cache changes only when deleteMessage succeeds (the
\* message's own entry is removed) or createThread succeeds (the reply posted
\* is inserted), and is otherwise left as it is, recency order included.
C1_FullRefNeverReadsCache ==
    [][FullRefStep =>
         /\ NoCacheRead
         /\ IF Succeeds("deleteMessage")
            THEN \E p \in pending \ pending' :
                    messageCache' = SelectSeq(messageCache, LAMBDA e : e.key # p.id)
            ELSE IF Succeeds("createThread")
            THEN InsertsReply
            ELSE messageCache' = messageCache]_vars

\* A full ref has gone past resolution to its request although the cache
\* holds no entry for its id.
C1_Witness ==
    /\ last.op \in RefOps /\ last.ref = "full" /\ last.phase = "call"
    /\ last.res = "pending"
    /\ \E p \in pending : p.ref = "full" /\ ~Has(messageCache, p.id)

\* C2: resolving a string ref whose entry was inserted less than cacheTTL ago
\* and is still resident is a hit: the request goes to the cached channel,
\* cacheHits grows by one and cacheMisses stays.
C2_LiveEntryHits ==
    [][\A m \in MsgIds :
         (/\ isConnected
          /\ Has(messageCache, m)
          /\ Age(m) < PromisedTTL
          /\ last'.phase = "call"
          /\ Resolves(m))
         => /\ cacheHits' = cacheHits + 1
            /\ cacheMisses' = cacheMisses
            /\ last'.res = "pending" /\ last'.lookup = "hit"
            /\ \E p \in pending' \ pending :
                  /\ p.id = m
                  /\ p.channelId = Entry(messageCache, m).channelId]_vars

\* A string ref was resolved from the cache to the channel c2 while another
\* entry was resident.
C2_Witness ==
    /\ last.lookup = "hit" /\ last.ref = "string" /\ last.res = "pending"
    /\ cacheHits >= 1
    /\ Len(messageCache) = 2
    /\ \E p \in pending : p.ref = "string" /\ p.channelId = "c2"

\* C3: resolving a string ref whose entry is older than cacheTTL fails with
\* the operation's cache-miss kind and "context not found", cacheMisses
\* grows by one and cacheHits stays, no request goes to the transport and
\* the expired entry is gone from the cache.
C3_ExpiredEntryMisses ==
    [][\A m \in MsgIds :
         (/\ isConnected
          /\ Has(messageCache, m)
          /\ Age(m) > PromisedTTL
          /\ last'.phase = "call"
          /\ Resolves(m))
         => /\ cacheMisses' = cacheMisses + 1
            /\ cacheHits' = cacheHits
            /\ last'.res = CacheMissKind(last'.op)
            /\ last'.cause = "context not found"
            /\ pending' = pending
            /\ ~Has(messageCache', m)]_vars

\* C3, where the adapter was given a numeric cacheTTL.
C3_ExpiredEntryMissesWhenNumeric ==
    [][\A m \in MsgIds :
         (/\ isConnected
          /\ config.cacheTTL.tag = "number"
          /\ Has(messageCache, m)
          /\ Age(m) > PromisedTTL
          /\ last'.phase = "call"
          /\ Resolves(m))
         => /\ cacheMisses' = cacheMisses + 1
            /\ cacheHits' = cacheHits
            /\ last'.res = CacheMissKind(last'.op)
            /\ last'.cause = "context not found"
            /\ pending' = pending
            /\ ~Has(messageCache', m)]_vars

\* An entry older than an hour was resolved as a hit.
C3_StaleHit ==
    /\ last.lookup = "hit" /\ last.ref = "string"
    /\ \E p \in pending :
          /\ p.ref = "string" /\ Has(messageCache, p.id)
          /\ Age(p.id) > DefaultCacheTTL

Unexpired(c) == \A i \in 1..Len(c) : now - c[i].start <= PromisedTTL

\* C4: with capacity N and N unexpired entries resident, inserting a new id
\* pushes out exactly one entry, the least recently used one; the others keep
\* their entries and the new one is resident.  A hit counts as a use: the
\* entry hit by the step before is not the one pushed out (N >= 2).
C4_EvictsLeastRecentlyUsed ==
    [][\A k \in Keys(messageCache') \ Keys(messageCache) :
         (/\ config.cacheSize.tag = "number" /\ config.cacheSize.n >= 1
          /\ Len(messageCache) = config.cacheSize.n
          /\ Unexpired(messageCache))
         => /\ Keys(messageCache) \ Keys(messageCache') = {messageCache[1].key}
            /\ Len(messageCache') = Len(messageCache)
            /\ \A i \in 2..Len(messageCache) : messageCache'[i - 1] = messageCache[i]
            /\ messageCache'[Len(messageCache')].key = k
            /\ \A p \in OpsPending :
                  (last.lookup = "hit" /\ Len(messageCache) >= 2)
                  => p.id \in Keys(messageCache')]_vars

\* With capacity 2, m1 and m2 inserted and m1 then hit, the insertion of m3
\* has pushed out m2.
C4_Witness ==
    /\ config.cacheSize = Num(2)
    /\ last.op = "message" /\ last.evicted = {"m2"}
    /\ Keys(messageCache) = {"m1", "m3"}
    /\ \E p \in pending : p.ref = "string" /\ p.id = "m1"

-----------------------------------------------------------------------------
(* Operations in flight together: properties of OpsSpec *)

\* The Bot was constructed on the registered adapter.
InitOps ==
    /\ InitAdapter({RegisteredScenario})
    /\ bot = NewBot(SocketCredentials)

\* The refs of the concurrent callers: the message m1 by id and in full.
OpsRefs == { StringRef("m1") } \cup { FullRef(x) : x \in { y \in Messages : y.id = "m1" } }

\* Every operation called through its Bot method, one at a time, every way
\* the transport settles, connect and disconnect at any moment (also while
\* the operation waits), and the message m1 arriving.
NextOps ==
    \/ connect(SocketCredentials)
    \/ adapterDisconnect
    \/ \E p \in pending, o \in {"ok", "throw"} : connectDone(p, o)
    \/ \E p \in pending, o \in {"ok", "throw"} : disconnectDone(p, o)
    \/ \E r \in OpsRefs : Idle /\ editMessage(r, "bot")
    \/ \E r \in OpsRefs : Idle /\ deleteMessage(r, "bot")
    \/ \E r \in OpsRefs : Idle /\ addReaction(r, "bot")
    \/ \E r \in OpsRefs : Idle /\ removeReaction(r, "bot")
    \/ \E r \in OpsRefs : Idle /\ createThread(r, "bot")
    \/ Idle /\ sendMessage("c1", Undefined, "bot")
    \/ Idle /\ uploadFile("c1", "bot")
    \/ Idle /\ getChannels("bot")
    \/ \E ch \in {Undefined, "c1"} : Idle /\ getUsers(ch, "bot")
    \/ \E p \in pending, o \in TransportOutcomes, ts \in ResponseIds :
            sendMessageDone(p, o, ts, TRUE)
    \/ \E p \in pending, o \in TransportOutcomes : editMessageDone(p, o)
    \/ \E p \in pending, o \in TransportOutcomes : deleteMessageDone(p, o)
    \/ \E p \in pending, o \in TransportOutcomes : reactionDone(p, o)
    \/ \E p \in pending, o \in TransportOutcomes, ts \in ResponseIds :
            createThreadDone(p, o, ts, TRUE)
    \/ \E p \in pending, o \in TransportOutcomes : getChannelsDone(p, o)
    \/ \E p \in pending, o \in TransportOutcomes, n \in 0..MaxMembers : getUsersDone(p, o, n)
    \/ \E m \in { x \in InboundMessages : x.ts = "m1" } : onSlackMessage(m)

OpsSpec == InitOps /\ [][NextOps]_vars

\* deleteMessage in flight together with other calls, up to MaxPending of
\* them waiting on the transport: further deleteMessage and editMessage
\* calls, createThread, sendMessage, the messages m1 and m2 arriving,
\* disconnect and connect.
ConcurrentRefs == OpsRefs \cup { StringRef("m2") }

NextConcurrent ==
    \/ connect(SocketCredentials)
    \/ adapterDisconnect
    \/ \E p \in pending : connectDone(p, "ok")
    \/ \E p \in pending : disconnectDone(p, "ok")
    \/ \E r \in ConcurrentRefs : deleteMessage(r, "bot")
    \/ \E r \in ConcurrentRefs : editMessage(r, "bot")
    \/ createThread(StringRef("m1"), "bot")
    \/ sendMessage("c1", Undefined, "bot")
    \/ \E p \in pending, o \in TransportOutcomes : deleteMessageDone(p, o)
    \/ \E p \in pending, o \in TransportOutcomes : editMessageDone(p, o)
    \/ \E p \in pending, o \in TransportOutcomes, ts \in ResponseIds :
            createThreadDone(p, o, ts, TRUE)
    \/ \E p \in pending, o \in TransportOutcomes, ts \in ResponseIds :
            sendMessageDone(p, o, ts, TRUE)
    \/ \E m \in { x \in InboundMessages : x.ts \in {"m1", "m2"} } : onSlackMessage(m)

ConcurrentSpec == InitOps /\ [][NextConcurrent]_vars

AdapterOps == RefOps \cup {"sendMessage", "uploadFile", "getChannels", "getUsers"}

\* The error classes of failure Results.
ResultKinds == {"ok", "ConnectionError", "MessageSendError", "MessageEditError",
                "MessageDeleteError", "ReactionError", "Error"}

\* This step caches a message: an inbound message, or the message a
\* successful sendMessage or createThread posted.
InsertionStep ==
    \/ last'.op = "message"
    \/ Succeeds("sendMessage")
    \/ Succeeds("createThread")

\* C5: when deleteMessage returns success for message m (string or full
\* ref), m has no cache entry; an entry for m comes back only by a later
\* insertion; and resolving the string ref m while it has no entry is a miss
\* (ttl plays no part).  Whatever else is in flight or arrives meanwhile.
C5_DeleteRemovesEntry ==
    [][/\ Succeeds("deleteMessage")
          => \E p \in pending \ pending' : ~Has(messageCache', p.id)
       /\ \A m \in MsgIds :
             (~Has(messageCache, m) /\ Has(messageCache', m)) => InsertionStep
       /\ \A m \in MsgIds :
             (/\ isConnected
              /\ ~Has(messageCache, m)
              /\ last'.phase = "call"
              /\ ResolvesVia(m, "bot"))
             => /\ cacheMisses' = cacheMisses + 1
                /\ cacheHits' = cacheHits
                /\ last'.res = CacheMissKind(last'.op)
                /\ last'.cause = "context not found"]_vars

\* deleteMessage has just succeeded for m1, which had been hit by another
\* operation still in flight, and m1 has no entry.
C5_Witness ==
    /\ last.op = "deleteMessage" /\ last.phase = "done" /\ last.res = "ok"
    /\ ~Has(messageCache, "m1")
    /\ \E p \in OpsPending : p.id = "m1" /\ p.ref = "string"

-----------------------------------------------------------------------------
(* Event dispatch: properties of DispatchSpec *)

\* Handlers are registered at any moment, also while an event is being
\* dispatched (any of the three for messages, h1 for reactions, h1 and h2 for
\* every event); messages and reactions arrive once the adapter is connected.
NextDispatch ==
    \/ connect(SocketCredentials)
    \/ \E p \in pending : connectDone(p, "ok")
    \/ \E h \in Handlers : onMessage(h)
    \/ onReaction("h1")
    \/ \E h \in {"h1", "h2"} : onEvent(h)
    \/ \E m \in { x \in InboundMessages : x.ts = "m1" } : onSlackMessage(m)
    \/ onSlackReaction
    \/ \E i \in 1..Len(dispatch) : handleEventResume(i)

DispatchSpec == InitOps /\ [][NextDispatch]_vars

\* The dispatches begun: those in progress and the one that finished last.
Dispatches == { dispatch[i] : i \in 1..Len(dispatch) }
              \cup (IF log.type = "none" THEN {} ELSE {log})

\* The invocations by d of the handler registered at position i under key.
Invocations(d, key, i) ==
    { j \in 1..Len(d.invoked) : d.invoked[j].key = key /\ d.invoked[j].pos = i }

\* C7: a handler that throws or rejects never makes handleEvent raise or
\* reject (nothing reaches the adapter's emitting loop), and when the
\* dispatch of an event is over, every handler that was registered for its
\* type and every wildcard handler has been invoked exactly once.
C7_HandlerIsolation ==
    /\ \A d \in Dispatches : d.status # "escaped"
    /\ log.type # "none" =>
          /\ log.status = "returned"
          /\ \A i \in 1..log.regT : Cardinality(Invocations(log, log.type, i)) = 1
          /\ \A i \in 1..log.regW : Cardinality(Invocations(log, "*", i)) = 1

\* A dispatch is over in which the first handler invoked failed, a failure
\* was reported, and handlers of the type and a wildcard handler ran after it.
C7_Witness ==
    /\ log.type = "message" /\ log.status = "returned"
    /\ log.regT = 2 /\ log.regW >= 1
    /\ log.reported >= 1
    /\ Behaviour(log.invoked[1].h) # "returns"
    /\ Len(log.invoked) >= 3

\* C8: in every dispatch the handlers invoked are handlers of the event's
\* type or wildcard handlers, each the one registered at its position; the
\* type's handlers all come before any wildcard handler, and within each
\* group the handlers run in registration order.
C8_DispatchOrder ==
    \A d \in Dispatches :
        /\ \A j \in 1..Len(d.invoked) :
              /\ d.invoked[j].key \in {d.type, "*"}
              /\ d.invoked[j].pos <= Len(bot.handlers[d.invoked[j].key])
              /\ d.invoked[j].h = bot.handlers[d.invoked[j].key][d.invoked[j].pos]
        /\ \A j, k \in 1..Len(d.invoked) :
              j < k =>
                 /\ d.invoked[j].key = "*" => d.invoked[k].key = "*"
                 /\ d.invoked[j].key = d.invoked[k].key
                       => d.invoked[j].pos < d.invoked[k].pos
        /\ d.status = "returned" =>
              /\ \A i \in 1..d.regT : Invocations(d, d.type, i) # {}
              /\ \A i \in 1..d.regW : Invocations(d, "*", i) # {}

\* A message was dispatched to two message handlers and then a wildcard
\* handler while a reaction handler was registered and left alone.
C8_Witness ==
    /\ log.type = "message" /\ log.status = "returned"
    /\ Len(bot.handlers["reaction"]) >= 1
    /\ Len(log.invoked) = 3
    /\ log.invoked[1].key = "message" /\ log.invoked[1].pos = 1
    /\ log.invoked[2].key = "message" /\ log.invoked[2].pos = 2
    /\ log.invoked[3].key = "*"
    /\ log.invoked[1].h # log.invoked[2].h

-----------------------------------------------------------------------------
(* The Bot facade: properties of FacadeSpec *)

\* A Bot is created by createBot or was constructed directly; it is started
\* and stopped, and replies to messages.
NextFacade ==
    \/ \E c \in CredentialSet : createBot(c)
    \/ \E p \in pending, o \in {"ok", "throw"} : connectDone(p, o)
    \/ start
    \/ stop
    \/ \E p \in pending, o \in {"ok", "throw"} : disconnectDone(p, o)
    \/ \E message \in ReplyMessages, t \in ThreadOptions :
            Idle /\ reply(message, [threadId |-> t])
    \/ \E p \in pending, o \in TransportOutcomes, ts \in ResponseIds, w \in BOOLEAN :
            sendMessageDone(p, o, ts, w)

FacadeSpec == InitBot /\ [][NextFacade]_vars

\* This step is a call of Bot.reply.
ReplyStep == last'.op = "sendMessage" /\ last'.phase = "call" /\ last'.reply.id # Undefined

\* The thread a reply belongs to: the message's thread when it has one, the
\* message itself otherwise.
ThreadOf(m) == IF m.threadId \notin {Undefined, ""} THEN m.threadId ELSE m.id

\* C9: Bot.reply(message, text) makes one call of the adapter's sendMessage,
\* with the message's channel and with the message's thread id when it has
\* one and the message's own id otherwise; what that call returns is what
\* reply returns.
C9_ReplyThreadRule ==
    [][ReplyStep =>
         /\ last'.via = "bot"
         /\ last'.reply.toChannel = last'.reply.channelId
         /\ last'.reply.toThread = ThreadOf(last'.reply)
         /\ IF isConnected
            THEN /\ last'.res = "pending"
                 /\ \E p \in pending' \ pending :
                       /\ pending' = pending \cup {p}
                       /\ p.op = "sendMessage" /\ p.via = "bot"
                       /\ p.channelId = last'.reply.channelId
                       /\ p.threadId = ThreadOf(last'.reply)
            ELSE /\ last'.res = "ConnectionError"
                 /\ pending' = pending]_vars

\* A reply to m2, a message of thread m1 in channel c2, is waiting on the
\* transport, addressed to c2 and thread m1.
C9_Witness ==
    /\ last.op = "sendMessage" /\ last.reply.id = "m2" /\ last.res = "pending"
    /\ \E p \in pending : p.op = "sendMessage" /\ p.channelId = "c2" /\ p.threadId = "m1"

\* C10: Bot.start() while the adapter is connected calls nothing and changes
\* nothing; while it is not connected, start() calls adapter.connect once,
\* with the credentials supplied when the bot was created.
C10_StartUsesSuppliedCredentials ==
    [][/\ last'.op = "start"
          => isConnected /\ UNCHANGED <<adapterVars, botVars, clockVars>>
       /\ (last'.op = "connect" /\ last'.via = "start" /\ last'.phase = "call")
          => /\ ~isConnected
             /\ last'.with = bot.supplied
             /\ UNCHANGED <<messageCache, cacheHits, cacheMisses, botVars>>]_vars

\* C10 for a Bot constructed with its credentials, new Bot(adapter, platform,
\* credentials): start() passes them on.
C10_StartWhenConstructedDirectly ==
    [][bot.credentials = bot.supplied =>
         /\ last'.op = "start"
               => isConnected /\ UNCHANGED <<adapterVars, botVars, clockVars>>
         /\ (last'.op = "connect" /\ last'.via = "start" /\ last'.phase = "call")
               => ~isConnected /\ last'.with = bot.supplied]_vars

\* A Bot returned by createBot was stopped and started again: connect was
\* called with undefined and raised a TypeError.
C10_StartWithoutCredentials ==
    /\ last.op = "connect" /\ last.via = "start"
    /\ bot.supplied = SocketCredentials
    /\ ~last.with.defined
    /\ last.res = "raised:TypeError"

-----------------------------------------------------------------------------
(* Stopping and starting again: properties of FacadeSpec *)

\* Credentials connect() accepts: a bot token with an app token or a signing
\* secret.
Connectable(c) ==
    /\ c.defined
    /\ c.botToken # Undefined
    /\ c.appToken # Undefined \/ c.signingSecret # Undefined

StartCall == last'.op = "connect" /\ last'.via = "start" /\ last'.phase = "call"

\* C11: once Bot.stop() has completed the adapter is not connected; a
\* following Bot.start() of a bot created with working credentials connects
\* again (connect goes on to start the transport, and when that succeeds the
\* adapter is connected), in every stop/start cycle.
C11_StopThenStartReconnects ==
    [][/\ (last'.op = "disconnect" /\ last'.via = "stop" /\ last'.res = "ok")
             => ~isConnected'
       /\ (StartCall /\ Connectable(bot.supplied))
             => last'.res = "pending" /\ Cardinality(LifecyclePending') = 1
       /\ (last'.op = "connect" /\ last'.via = "start" /\ last'.phase = "done"
              /\ last'.res = "ok")
             => isConnected']_vars

\* C11 for a Bot constructed with its credentials, new Bot(adapter, platform,
\* credentials): every start() after a stop() connects again.
C11_ReconnectsWhenConstructedDirectly ==
    [][bot.credentials = bot.supplied =>
         /\ (last'.op = "disconnect" /\ last'.via = "stop" /\ last'.res = "ok")
               => ~isConnected'
         /\ (StartCall /\ Connectable(bot.supplied))
               => last'.res = "pending" /\ Cardinality(LifecyclePending') = 1
         /\ (last'.op = "connect" /\ last'.via = "start" /\ last'.phase = "done"
                /\ last'.res = "ok")
               => isConnected']_vars

\* A Bot returned by createBot with events-API credentials was stopped; its
\* start() raised and left the adapter disconnected.
C11_RestartFails ==
    /\ last.op = "connect" /\ last.via = "start"
    /\ bot.supplied = EventsCredentials
    /\ last.res # "pending"
    /\ ~isConnected

-----------------------------------------------------------------------------
(* The adapter registry and createBot's choice of adapter *)

\* registry.register(platform, adapter): warns when the platform has an
\* adapter, then sets.
register(platform, adapter) ==
    /\ Len(registryLog) <= MaxRegistryCalls
    /\ adapters' = MapSet(adapters, platform, adapter)
    /\ registryLog' = Append(registryLog, [op |-> "register", platform |-> platform,
                                           adapter |-> adapter])
    /\ last' = Call("register", "registry", "call", "none", "ok",
                    IF has(platform) THEN "overwriting" ELSE "none", "none")
    /\ UNCHANGED <<adapterVars, botVars, clockVars, made, discord>>

\* registry.clear()
clear ==
    /\ Len(registryLog) <= MaxRegistryCalls
    /\ adapters' = NoAdapters
    /\ registryLog' = Append(registryLog, [op |-> "clear", platform |-> "none",
                                           adapter |-> Absent])
    /\ last' = Call("clear", "registry", "call", "none", "ok", "none", "none")
    /\ UNCHANGED <<adapterVars, botVars, clockVars, made, discord>>

\* Variant: a registered adapter is preferred to config.adapter.
ChooseRegisteredFirst(platform, custom) ==
    IF has(platform) THEN get(platform) ELSE custom

\* createBot: `if (config.adapter) adapter = config.adapter; else
\* registry.get(config.platform)`; undefined when there is neither.
ChooseAdapter(platform, custom) ==
    IF custom # Undefined THEN custom ELSE get(platform)

\* createBot(config) for any platform, with or without config.adapter, up
\* to `await adapter.connect(...)`.
createBotFor(platform, custom) ==
    LET adapter == ChooseAdapter(platform, custom)
    IN  /\ made.res # "pending"
        /\ IF adapter = Undefined
           THEN /\ made' = [platform |-> platform, custom |-> custom, chosen |-> Undefined,
                            connects |-> <<>>, res |-> "raised:AdapterNotFoundError",
                            bound |-> Undefined]
                /\ last' = Call("createBot", "createBot", "call", "none",
                                "raised:AdapterNotFoundError", "none", "none")
           ELSE /\ made' = [platform |-> platform, custom |-> custom, chosen |-> adapter,
                            connects |-> <<adapter>>, res |-> "pending",
                            bound |-> Undefined]
                /\ last' = Call("createBot", "createBot", "call", "none", "pending",
                                "none", "none")
        /\ UNCHANGED <<adapterVars, botVars, clockVars, adapters, registryLog, discord>>

\* createBot after the adapter's connect settles: `new Bot(adapter, ...)`, or
\* the exception wrapped in a ConnectionError.
createBotForDone(outcome) ==
    /\ made.res = "pending"
    /\ outcome \in {"ok", "throw"}
    /\ IF outcome = "ok"
       THEN /\ made' = [made EXCEPT !.res = "ok", !.bound = made.chosen]
            /\ last' = Call("createBot", "createBot", "done", "none", "ok", "none", "none")
       ELSE /\ made' = [made EXCEPT !.res = "raised:ConnectionError"]
            /\ last' = Call("createBot", "createBot", "done", "none",
                            "raised:ConnectionError", "connect failed", "none")
    /\ UNCHANGED <<adapterVars, botVars, clockVars, adapters, registryLog, discord>>

\* Adapters are registered and the registry is cleared while bots are
\* created for either platform, with and without an adapter of their own.
NextRegistry ==
    \/ \E p \in Platforms, a \in AdapterIds \ {"imported"} : register(p, a)
    \/ clear
    \/ \E p \in Platforms, a \in {Undefined, "a2"} : createBotFor(p, a)
    \/ \E o \in {"ok", "throw"} : createBotForDone(o)

RegistrySpec == Init /\ [][NextRegistry]_vars

\* The calls made on the registry since it was last cleared.
RECURSIVE SinceClear(_)
SinceClear(calls) ==
    IF calls = <<>> THEN <<>>
    ELSE IF calls[Len(calls)].op = "clear" THEN <<>>
    ELSE Append(SinceClear(SubSeq(calls, 1, Len(calls) - 1)), calls[Len(calls)])

\* The adapters registered for platform p since the last clear, oldest first.
Registrations(p) == SelectSeq(SinceClear(registryLog), LAMBDA c : c.platform = p)

C13_AdapterChoice ==
    [][/\ (last'.op = "createBot" /\ last'.phase = "call")
            => /\ (made'.custom = Undefined /\ ~has(made'.platform))
                    => /\ made'.res = "raised:AdapterNotFoundError"
                       /\ made'.connects = <<>>
                       /\ made'.bound = Undefined
               /\ made'.custom # Undefined
                    => made'.res = "pending" /\ made'.connects = <<made'.custom>>
               /\ made'.res = "raised:AdapterNotFoundError"
                    => made'.custom = Undefined /\ ~has(made'.platform)
       /\ (last'.op = "createBot" /\ last'.phase = "done")
            => /\ made'.connects = made.connects
               /\ last'.res = "ok" /\ made.custom # Undefined
                    => made'.bound = made.custom
               /\ last'.res # "ok" => made'.bound = Undefined]_vars

\* createBot({platform: 'slack', adapter: a2}) returned a Bot on a2 while
\* the registry holds another adapter for slack.
C13_Witness ==
    /\ made.res = "ok" /\ made.platform = "slack"
    /\ made.custom = "a2" /\ made.bound = "a2"
    /\ has("slack") /\ get("slack") # "a2"

\* createBot for discord failed with AdapterNotFoundError and connect was
\* called on nothing.
C13_NotFoundWitness ==
    /\ made.res = "raised:AdapterNotFoundError" /\ made.platform = "discord"
    /\ made.connects = <<>>

-----------------------------------------------------------------------------
(* Failures of connect: properties of FacadeSpec *)

\* This step is a call of adapter.connect, or its continuation, that failed.
ConnectFails == last'.op = "connect" /\ last'.res \notin {"pending", "ok"}

\* C14: every failure of connect, and with it every failure of createBot
\* and of Bot.start(), is a raised ConnectionError, whatever the credentials
\* value, an absent one included.
C14_ConnectRaisesConnectionError ==
    [][ConnectFails => last'.res = "raised:ConnectionError"]_vars

\* C14 for credentials that are an object, complete or not: the failure is
\* a raised ConnectionError and the call that fails has suspended nothing.
C14_ConnectionErrorWhenCredentialsGiven ==
    [][ConnectFails /\ (last'.phase = "call" => last'.with.defined)
         => /\ last'.res = "raised:ConnectionError"
            /\ LifecyclePending' = {}]_vars

\* connect was called with undefined and raised a TypeError.
C14_TypeErrorRaised ==
    /\ last.op = "connect" /\ last.phase = "call"
    /\ ~last.with.defined
    /\ last.res = "raised:TypeError"
    /\ pending = {}

\* The transport's start failed and connect raised a ConnectionError.
C14_StartFailureRaised ==
    /\ last.op = "connect" /\ last.phase = "done"
    /\ last.res = "raised:ConnectionError" /\ last.cause = "start failed"

-----------------------------------------------------------------------------
(* The errors failure Results carry: properties of OpsSpec *)

\* This step returned the cache-miss failure.
MissStep == last'.phase = "call" /\ last'.cause = "context not found"

MissCauses == {"cache expired", "bot restarted", "sent by another instance"}

\* C15: the failure each of editMessage, deleteMessage, addReaction,
\* removeReaction and createThread returns on a cache miss has a message
\* that tells the caller to pass the full message object and lists the three
\* causes of a miss.
C15_MissMessageExplains ==
    [][MissStep =>
         /\ last'.op \in RefOps
         /\ "pass the full message object" \in last'.error.says
         /\ MissCauses \subseteq last'.error.says]_vars

\* C15 without the causes: every cache-miss failure names the condition and
\* tells the caller to pass the full message object; editMessage's also
\* lists the three causes.
C15_MissMessageGivesSolution ==
    [][MissStep =>
         /\ last'.op \in RefOps
         /\ last'.ref = "string"
         /\ {"channel context not found", "pass the full message object"}
               \subseteq last'.error.says
         /\ last'.op = "editMessage" => MissCauses \subseteq last'.error.says]_vars

\* deleteMessage on an id that is not cached returned a failure whose
\* message lists none of the causes.
C15_MissWithoutCauses ==
    /\ last.op = "deleteMessage" /\ last.cause = "context not found"
    /\ last.res = "MessageDeleteError"
    /\ "pass the full message object" \in last.error.says
    /\ MissCauses \cap last.error.says = {}


\* This step returned a failure Result.
FailureStep == last'.op \in AdapterOps /\ last'.res \in ResultKinds \ {"ok"}

\* Identifier arguments that are the channel id or message id of the call.
CallerIds == {"messageRef", "messageId", "channelId", "messageRef.channelId"}

\* The error names its cause: the message ends with the cause's message.
NamesCause(error, op, cause) ==
    CauseSays(op, cause) # {} /\ CauseSays(op, cause) \subseteq error.says

\* C16: every failure Result of a Slack-adapter operation carries a typed
\* error that records the platform 'slack', the channel id or message id of
\* the call (a call on a disconnected adapter, which affects none, apart),
\* and the underlying cause; the cache-miss failure of createThread and the
\* failures of getChannels and getUsers included.
C16_FailuresAreTypedAndIdentified ==
    [][FailureStep =>
         /\ last'.error.class # "Error"
         /\ last'.error.platform = "slack"
         /\ last'.cause # "Not connected" => last'.error.idFrom \in CallerIds
         /\ NamesCause(last'.error, last'.op, last'.cause)]_vars

\* C16 where it holds: a failure of sendMessage, editMessage, deleteMessage,
\* addReaction, removeReaction or uploadFile on a connected adapter, and of
\* createThread on a full message, is typed, records 'slack', the id of the
\* call and the cause; every failure, whatever the operation, names its
\* cause, and every typed one records 'slack'.
C16_FailuresOfMessageOperations ==
    [][FailureStep =>
         /\ NamesCause(last'.error, last'.op, last'.cause)
         /\ last'.error.class = last'.res
         /\ last'.error.class # "Error" => last'.error.platform = "slack"
         /\ (/\ last'.cause # "Not connected"
             /\ \/ last'.op \in {"sendMessage", "editMessage", "deleteMessage",
                                 "addReaction", "removeReaction", "uploadFile"}
                \/ last'.op = "createThread" /\ last'.ref = "full")
               => /\ last'.error.class # "Error"
                  /\ last'.error.idFrom \in CallerIds]_vars

\* createThread on an id that is not cached returned a MessageSendError
\* whose channel is the literal 'unknown'.
C16_ThreadMissUnknownChannel ==
    /\ last.op = "createThread" /\ last.cause = "context not found"
    /\ last.error.class = "MessageSendError"
    /\ last.error.idFrom = "'unknown'"

\* getChannels failed with a plain Error: no platform, no identifier.
C16_ChannelsPlainError ==
    /\ last.op = "getChannels" /\ last.phase = "done"
    /\ last.error.class = "Error"
    /\ last.error.platform = Absent

-----------------------------------------------------------------------------
(* DiscordAdapter: lifecycle and event listeners *)

slackVars == <<adapterVars, botVars, clockVars, registryVars>>

\* DiscordCredentials, or the value undefined.
DiscordCredentialSet == { [defined |-> TRUE, token |-> "token"],
                          [defined |-> TRUE, token |-> Undefined],
                          [defined |-> FALSE, token |-> Undefined] }

\* DiscordAdapter.isConnected()
discordIsConnected == discord.client = "ready"

\* DiscordAdapter.connect(credentials) up to `await this.client.login(...)`.
discordConnect(credentials) ==
    /\ discord.connecting = "none"
    /\ IF ~credentials.defined
       THEN /\ last' = Call("connect", "discord", "call", "none", "raised:TypeError",
                            "credentials undefined", "none")
            /\ UNCHANGED discord
       ELSE IF credentials.token = Undefined
       THEN /\ last' = Call("connect", "discord", "call", "none",
                            "raised:ConnectionError", "token required", "none")
            /\ UNCHANGED discord
       ELSE /\ discord' = [discord EXCEPT !.client = "created", !.connecting = "login"]
            /\ last' = Call("connect", "discord", "call", "none", "pending", "none", "none")
    /\ UNCHANGED slackVars

\* connect after login settles: it goes on to wait for the client's ready
\* event, or wraps the exception in a ConnectionError; the client built
\* stays in place.
discordLoginDone(outcome) ==
    /\ discord.connecting = "login"
    /\ outcome \in {"ok", "throw"}
    /\ IF outcome = "ok"
       THEN /\ discord' = [discord EXCEPT !.connecting = "ready"]
            /\ last' = Call("connect", "discord", "done", "none", "pending", "none", "none")
       ELSE /\ discord' = [discord EXCEPT !.connecting = "none"]
            /\ last' = Call("connect", "discord", "done", "none",
                            "raised:ConnectionError", "login failed", "none")
    /\ UNCHANGED slackVars

\* The client's ready event fires after a login: connect() returns.
discordReady ==
    /\ discord.connecting = "ready"
    /\ discord.client = "created"
    /\ discord.overlap = "none" /\ discord.waits = "current"
    /\ discord' = [discord EXCEPT !.client = "ready", !.connecting = "none"]
    /\ last' = Call("connect", "discord", "done", "none", "ok", "none", "none")
    /\ UNCHANGED slackVars

\* DiscordAdapter.disconnect(): destroys the client, synchronously.
\* Listeners suspended at a fetch stay suspended.
discordDisconnect ==
    /\ discord' = IF discord.client # "null"
                  THEN [discord EXCEPT !.client = "null"]
                  ELSE discord
    /\ last' = Call("disconnect", "discord", "call", "none", "ok", "none", "none")
    /\ UNCHANGED slackVars

\* DiscordAdapter.onEvent(handler): Set.add
discordOnEvent(handler) ==
    /\ ~InSeq(discord.eventHandlers, handler)
    /\ discord' = [discord EXCEPT !.eventHandlers = Append(@, handler)]
    /\ last' = NoCall
    /\ UNCHANGED slackVars

\* What the gateway delivers: the client event, whether the reaction and
\* the user are partial structures, and whether the author is a bot.
Occurrence(event, partial, userPartial, isBot) ==
    [event |-> event, partial |-> partial, userPartial |-> userPartial, bot |-> isBot]

Occurrences ==
    { Occurrence("messageCreate", FALSE, FALSE, FALSE),
      Occurrence("messageReactionAdd", FALSE, FALSE, TRUE),
      Occurrence("messageReactionAdd", TRUE, FALSE, FALSE),
      Occurrence("messageReactionRemove", TRUE, TRUE, FALSE) }

\* emitEvent(event): every handler of the Set is called with the event, in
\* insertion order; e is the position of the occurrence in the delivery
\* order.
emitEvent(d, e) ==
    [d EXCEPT !.calls = @ \o [i \in 1..Len(d.eventHandlers) |->
                                 [h |-> d.eventHandlers[i], e |-> e]]]

\* A reaction listener from `if (user.partial)` on.
reactionUser(d, e) ==
    IF d.delivered[e].userPartial
    THEN [d EXCEPT !.waiting = @ \cup {[e |-> e, stage |-> "user"]}]
    ELSE IF d.delivered[e].bot THEN d
    ELSE emitEvent(d, e)

\* The listeners of setupEventListeners, run on the occurrence the gateway
\* delivers next, up to their first await.
discordDeliver(occurrence) ==
    /\ discord.client = "ready"
    /\ Len(discord.delivered) < MaxOccurrences
    /\ LET e == Len(discord.delivered) + 1
           d == [discord EXCEPT !.delivered = Append(@, occurrence)]
       IN  discord' =
              IF occurrence.event = "messageCreate"
              THEN IF occurrence.bot THEN d ELSE emitEvent(d, e)
              ELSE IF occurrence.partial
              THEN [d EXCEPT !.waiting = @ \cup {[e |-> e, stage |-> "reaction"]}]
              ELSE reactionUser(d, e)
    /\ last' = NoCall
    /\ UNCHANGED slackVars

\* A reaction listener after reaction.fetch() or user.fetch() settles: a
\* failed fetch is logged and the occurrence dropped.
discordFetched(w, outcome) ==
    /\ w \in discord.waiting
    /\ outcome \in {"ok", "throw"}
    /\ LET d == [discord EXCEPT !.waiting = @ \ {w}]
       IN  discord' =
              IF outcome = "throw" THEN d
              ELSE IF w.stage = "reaction" THEN reactionUser(d, w.e)
              ELSE IF d.delivered[w.e].bot THEN d
              ELSE emitEvent(d, w.e)
    /\ last' = NoCall
    /\ UNCHANGED slackVars

\* A Discord adapter and the Bot that subscribes to it; it connects,
\* receives occurrences and disconnects.
InitDiscord ==
    /\ InitAdapter({RegisteredScenario})
    /\ bot = NoBot

NextDiscord ==
    \/ \E c \in DiscordCredentialSet : discordConnect(c)
    \/ \E o \in {"ok", "throw"} : discordLoginDone(o)
    \/ discordReady
    \/ discordDisconnect
    \/ discordOnEvent("bot")
    \/ \E occurrence \in Occurrences : discordDeliver(occurrence)
    \/ \E w \in discord.waiting, o \in {"ok", "throw"} : discordFetched(w, o)

DiscordSpec == InitDiscord /\ [][NextDiscord]_vars

\* The occurrences that were normalized to an event and emitted.
Emitted == { discord.calls[i].e : i \in 1..Len(discord.calls) }

\* Handler calls are in delivery order, for the occurrences in S.
InDeliveryOrder(S) ==
    \A i, j \in 1..Len(discord.calls) :
        /\ i < j
        /\ discord.calls[i].h = discord.calls[j].h
        /\ discord.calls[i].e \in S /\ discord.calls[j].e \in S
        => discord.calls[i].e <= discord.calls[j].e

\* C17: when the transport delivers e1 before e2 and both are emitted as
\* events, every handler subscribed to the adapter is called with e1 before
\* it is called with e2, Discord reactions that need a fetch included.
C17_EventsInDeliveryOrder == InDeliveryOrder(Emitted)

\* The occurrences whose listener runs to emitEvent without an await.
Unfetched ==
    { e \in 1..Len(discord.delivered) :
         ~discord.delivered[e].partial /\ ~discord.delivered[e].userPartial }

\* C17 for the occurrences that need no fetch (messages, and reactions
\* delivered in full): they reach the handler in delivery order, each at
\* most once.
C17_OrderWithoutFetch ==
    /\ InDeliveryOrder(Unfetched)
    /\ \A e \in Unfetched :
          Cardinality({ i \in 1..Len(discord.calls) : discord.calls[i].e = e }) <= 1

\* A partial reaction was delivered first and a message second; the Bot's
\* handler was called with the message before the reaction.
C17_ReactionOvertaken ==
    /\ Len(discord.calls) >= 2
    /\ discord.calls[1].h = "bot" /\ discord.calls[1].e = 2
    /\ \E i \in 2..Len(discord.calls) :
          discord.calls[i].h = "bot" /\ discord.calls[i].e = 1
    /\ discord.delivered[1].partial
    /\ discord.delivered[2].event = "messageCreate"

-----------------------------------------------------------------------------
(* Registration during dispatch: properties of DispatchSpec *)

\* The handlers d invoked that were registered after d started.
LateInvocations(d) ==
    { j \in 1..Len(d.invoked) :
         \/ d.invoked[j].key = d.type /\ d.invoked[j].pos > d.regT
         \/ d.invoked[j].key = "*" /\ d.invoked[j].pos > d.regW }

\* C18: a handler registered with onMessage, onReaction or onEvent is never
\* invoked for an event whose dispatch started before it was registered,
\* registrations made while that event is being dispatched included.
C18_NoHandlerRegisteredLaterIsInvoked ==
    \A d \in Dispatches : LateInvocations(d) = {}

\* C18 for the dispatches that are over: registering a handler invokes
\* nothing and replays nothing.
C18_RegistrationReplaysNothing ==
    [][bot'.handlers # bot.handlers => UNCHANGED <<dispatch, log>>]_vars

\* A message was dispatched while no wildcard handler was registered, and a
\* wildcard handler registered before the dispatch was over was invoked
\* for it.
C18_LateWildcardInvoked ==
    /\ log.type = "message" /\ log.status = "returned"
    /\ log.regW = 0
    /\ \E j \in LateInvocations(log) : log.invoked[j].key = "*"

-----------------------------------------------------------------------------
(* Insertions into the reference cache: properties of InsertSpec *)

\* Messages are sent to either channel, in a thread or not, threads are
\* created, and messages arrive; the transport's response message carries
\* its channel or not.
NextInsert ==
    \/ Idle /\ Tick
    \/ connect(SocketCredentials)
    \/ \E p \in pending : connectDone(p, "ok")
    \/ \E c \in Channels, t \in ThreadOptions : Idle /\ sendMessage(c, t, "adapter")
    \/ \E r \in Refs : Idle /\ createThread(r, "adapter")
    \/ \E p \in pending, o \in Settled, ts \in ResponseIds, w \in BOOLEAN :
            sendMessageDone(p, o, ts, w)
    \/ \E p \in pending, o \in Settled, ts \in ResponseIds, w \in BOOLEAN :
            createThreadDone(p, o, ts, w)
    \/ \E m \in InboundMessages : onSlackMessage(m)

InsertSpec == Init /\ [][NextInsert]_vars

\* The entry the cache holds as most recently used.
Newest(c) == c[Len(c)]

\* The entry is that of the message the insertion step returned or
\* delivered: the one the listener received, or the one the transport's
\* response to the settled request describes (createThread takes the channel
\* from the response message alone, which may carry none).
Inserted(e) ==
    /\ e.key = last'.message.id
    /\ e.channelId = last'.message.channelId
    /\ e.threadId = last'.message.threadId
    /\ IF last'.op = "message"
       THEN \E m \in Messages :
               m.id = e.key /\ m.channelId = e.channelId /\ m.threadId = e.threadId
       ELSE \E p \in pending \ pending' :
               /\ e.key \in ResponseIds
               /\ e.channelId \in {p.channelId, ""}
               /\ e.channelId = "" => p.op = "createThread"
               /\ e.threadId = IF p.op = "createThread" THEN p.id ELSE p.threadId

\* C19: every successful sendMessage, every successful createThread and
\* every inbound message event leaves exactly one entry for the message's
\* id, holding that message's channel and thread, as the most recently used
\* entry with its age restarted, whatever entry the id had before; when the
\* id had an entry the number of entries stays the same and nothing is
\* evicted.
C19_InsertionOverwrites ==
    [][InsertionStep =>
         /\ messageCache' # <<>>
         /\ LET e == Newest(messageCache')
            IN  /\ Cardinality({ i \in 1..Len(messageCache') :
                                    messageCache'[i].key = e.key }) = 1
                /\ Inserted(e)
                /\ e.start = now'
                /\ Keys(messageCache') \ Keys(messageCache) \subseteq {e.key}
                /\ last'.replaced = Has(messageCache, e.key)
                /\ Has(messageCache, e.key)
                      => /\ Len(messageCache') = Len(messageCache)
                         /\ Keys(messageCache') = Keys(messageCache)
                         /\ last'.evicted = {}]_vars

\* The inbound message m3 of channel c1 replaced the entry m3 had, in a
\* cache that is full and at a later time: the entry's age restarted and
\* nothing was evicted.
C19_Witness ==
    /\ last.op = "message" /\ last.replaced
    /\ Len(messageCache) = CacheMax
    /\ Newest(messageCache).key = "m3"
    /\ Newest(messageCache).channelId = "c1"
    /\ Newest(messageCache).start = now /\ now > 0
    /\ cacheHits >= 1

-----------------------------------------------------------------------------
(* Send, resolve, expire, resolve in full: properties of SentSpec *)

\* The message sendMessage('c1', text) returns: the transport names it m3.
Sent == [id |-> "m3", channelId |-> "c1", threadId |-> Undefined]

SentRefs == {StringRef(Sent.id), FullRef(Sent)}

\* A message is sent to c1 and then referred to, by id and in full, as time
\* passes; other messages arrive meanwhile.  Only sendMessage produces m3:
\* the replies createThread posts are named m2.
NextSent ==
    \/ Idle /\ Tick
    \/ connect(SocketCredentials)
    \/ \E p \in pending : connectDone(p, "ok")
    \/ Idle /\ sendMessage(Sent.channelId, Undefined, "adapter")
    \/ \E p \in pending, o \in Settled, w \in BOOLEAN : sendMessageDone(p, o, Sent.id, w)
    \/ \E r \in SentRefs : Idle /\ editMessage(r, "adapter")
    \/ \E r \in SentRefs : Idle /\ deleteMessage(r, "adapter")
    \/ \E r \in SentRefs : Idle /\ addReaction(r, "adapter")
    \/ \E r \in SentRefs : Idle /\ removeReaction(r, "adapter")
    \/ \E r \in SentRefs : Idle /\ createThread(r, "adapter")
    \/ \E p \in pending, o \in Settled : editMessageDone(p, o)
    \/ \E p \in pending, o \in Settled : deleteMessageDone(p, o)
    \/ \E p \in pending, o \in Settled : reactionDone(p, o)
    \/ \E p \in pending, o \in Settled : createThreadDone(p, o, "m2", TRUE)
    \/ \E m \in { x \in InboundMessages : x.ts = "m1" } : onSlackMessage(m)

SentSpec == Init /\ [][NextSent]_vars

\* The scenario for a message sent and still resident, with TTL the time
\* entries are promised to live.
SentScenario(TTL) ==
    /\ (Succeeds("sendMessage") /\ last'.message.id = Sent.id)
          => /\ last'.message = Sent
             /\ Has(messageCache', Sent.id)
             /\ Entry(messageCache', Sent.id).channelId = Sent.channelId
             /\ Entry(messageCache', Sent.id).start = now
    /\ (/\ isConnected /\ Has(messageCache, Sent.id)
        /\ last'.phase = "call" /\ Resolves(Sent.id))
          => /\ Age(Sent.id) < TTL
                => /\ last'.res = "pending" /\ last'.lookup = "hit"
                   /\ \E p \in pending' \ pending :
                         p.id = Sent.id /\ p.channelId = Sent.channelId
             /\ Age(Sent.id) > TTL
                => /\ last'.res = CacheMissKind(last'.op)
                   /\ last'.cause = "context not found"
                   /\ pending' = pending
                   /\ ~Has(messageCache', Sent.id)
    /\ (isConnected /\ FullRefStep /\ last'.phase = "call")
          => /\ last'.res = "pending" /\ last'.lookup = "none"
             /\ \E p \in pending' \ pending :
                   p.id = Sent.id /\ p.channelId = Sent.channelId

\* C20: after sendMessage has returned M, a string-ref operation on M.id
\* within the TTL is a hit; the same operation after the TTL has passed
\* fails with the cache-miss failure; and the same operation given M itself
\* resolves the context and goes to the transport.
C20_SendHitExpireFullRef == [][SentScenario(PromisedTTL)]_vars

\* C20 for an adapter whose cacheTTL is a number: the TTL configured.
C20_ScenarioWhenNumeric ==
    [][config.cacheTTL.tag = "number" => SentScenario(config.cacheTTL.n)]_vars

\* The message sent was resolved by id as a hit although more than the
\* TTL had passed since it was sent.
C20_SentMessageOutlivesTTL ==
    /\ last.lookup = "hit" /\ last.res = "pending"
    /\ Has(messageCache, Sent.id)
    /\ Age(Sent.id) > PromisedTTL
    /\ \E p \in pending : p.id = Sent.id /\ p.ref = "string"

\* The whole scenario on an adapter with a numeric TTL: the message was sent,
\* time passed, its id was a miss, and it is now being edited in full.
C20_ScenarioRun ==
    /\ config.cacheTTL.tag = "number"
    /\ cacheMisses >= 1 /\ cacheHits >= 1
    /\ ~Has(messageCache, Sent.id)
    /\ last.op = "editMessage" /\ last.ref = "full" /\ last.res = "pending"

-----------------------------------------------------------------------------
(* Capacity and age together: properties of SentSpec *)

\* The capacity a configuration stands for: cacheSize, 1000 when it is not given.
PromisedSize == OrDefault(config.cacheSize, DefaultCacheSize).n

\* An insertion of a new id into a cache holding as many entries as its
\* capacity pushes out the least recently used entry, whatever its age.
EvictsWhateverAge ==
    \A k \in Keys(messageCache') \ Keys(messageCache) :
        Len(messageCache) = PromisedSize
        => /\ ~Has(messageCache', messageCache[1].key)
           /\ last'.evicted = {messageCache[1].key}
           /\ Len(messageCache') = PromisedSize

\* Resolving the string ref m, resident since Entry.start: a hit makes the
\* entry the most recently used and leaves its start as it was; once more
\* than TTL has passed since its start the resolution is a miss and the
\* entry is gone.
HitKeepsAge(m, TTL) ==
    (/\ isConnected /\ Has(messageCache, m)
     /\ last'.phase = "call" /\ Resolves(m))
    => /\ last'.lookup = "hit"
          => /\ Newest(messageCache').key = m
             /\ Newest(messageCache').start = Entry(messageCache, m).start
       /\ Age(m) > TTL
          => /\ last'.lookup = "expired"
             /\ last'.res = CacheMissKind(last'.op)
             /\ cacheMisses' = cacheMisses + 1 /\ cacheHits' = cacheHits
             /\ ~Has(messageCache', m)

\* C21: capacity and TTL are enforced independently: an entry still within
\* its TTL is evicted when an insertion needs its place, and an entry is a
\* miss at every time later than its insertion time plus cacheTTL, however
\* many hits it received in between: a hit renews its recency, not its age.
C21_CapacityAndTTLIndependent ==
    [][EvictsWhateverAge /\ \A m \in MsgIds : HitKeepsAge(m, PromisedTTL)]_vars

\* C21 for an adapter whose cacheTTL is a number: the TTL configured.
C21_IndependentWhenNumeric ==
    [][config.cacheTTL.tag = "number"
         => EvictsWhateverAge /\ \A m \in MsgIds : HitKeepsAge(m, config.cacheTTL.n)]_vars

\* An entry that was hit before is resolved as a hit again, more than the
\* TTL after its insertion.
C21_HitAfterTTL ==
    /\ last.lookup = "hit" /\ last.res = "pending"
    /\ cacheHits >= 2
    /\ \E p \in pending :
          /\ p.ref = "string" /\ Has(messageCache, p.id)
          /\ Age(p.id) > PromisedTTL

\* With a numeric TTL: an entry inserted when the clock started was hit
\* within its TTL and was a miss after it.
C21_MissAfterHit ==
    /\ config.cacheTTL.tag = "number"
    /\ last.lookup = "expired" /\ last.phase = "call"
    /\ cacheHits >= 1 /\ cacheMisses = 1
    /\ now > PromisedTTL

\* An insertion evicted an entry while no entry could have aged: the clock
\* has not advanced since the adapter was constructed.
C21_EvictedWithinTTL ==
    /\ last.evicted # {} /\ now = 0
    /\ Len(messageCache) = PromisedSize

-----------------------------------------------------------------------------
(* The hit and miss counters: properties of CounterSpec *)

CounterRefs == {StringRef("m1"), StringRef("m3"), FullRef(Sent)}

\* The adapter is connected, used, disconnected and connected again, while
\* messages are sent, arrive, expire and are deleted.
NextCounter ==
    \/ Idle /\ Tick
    \/ connect(SocketCredentials)
    \/ adapterDisconnect
    \/ \E p \in pending : connectDone(p, "ok")
    \/ \E p \in pending, o \in {"ok", "throw"} : disconnectDone(p, o)
    \/ \E r \in CounterRefs : Idle /\ editMessage(r, "adapter")
    \/ \E r \in CounterRefs : Idle /\ deleteMessage(r, "adapter")
    \/ Idle /\ sendMessage(Sent.channelId, Undefined, "adapter")
    \/ \E p \in pending, o \in Settled : sendMessageDone(p, o, Sent.id, TRUE)
    \/ \E p \in pending, o \in Settled : editMessageDone(p, o)
    \/ \E p \in pending, o \in Settled : deleteMessageDone(p, o)
    \/ \E m \in { x \in InboundMessages : x.subtype = Undefined /\ x.ts # Sent.id } :
            onSlackMessage(m)

CounterSpec == Init /\ [][NextCounter]_vars

\* This step is the resolution of a string ref: a MessageRef operation
\* called with a string on a connected adapter.
ResolutionStep ==
    /\ isConnected
    /\ last'.phase = "call" /\ last'.ref = "string" /\ last'.op \in RefOps

\* C22: cacheHits and cacheMisses never decrease: the resolution of a string
\* ref adds exactly one to exactly one of them (to cacheHits when the lookup
\* hits, to cacheMisses otherwise), and every other step, an eviction, an
\* expiry, a deletion, a disconnect and a connect included, leaves both as
\* they are.
C22_CountersOnlyGrow ==
    [][/\ cacheHits' >= cacheHits /\ cacheMisses' >= cacheMisses
       /\ IF ResolutionStep
          THEN IF last'.lookup = "hit"
               THEN cacheHits' = cacheHits + 1 /\ cacheMisses' = cacheMisses
               ELSE cacheMisses' = cacheMisses + 1 /\ cacheHits' = cacheHits
          ELSE cacheHits' = cacheHits /\ cacheMisses' = cacheMisses]_vars

\* A disconnect has completed and cleared the cache; the hit and the miss
\* counted before it are still counted.
C22_Witness ==
    /\ last.op = "disconnect" /\ last.phase = "done" /\ last.res = "ok"
    /\ app = "null" /\ messageCache = <<>>
    /\ cacheHits = 1 /\ cacheMisses = 1

-----------------------------------------------------------------------------
(* The hit-rate observation: properties of StatsSpec *)

\* Counters of an adapter that has resolved string refs for a while and is
\* now disconnected, its cache cleared.
StatsStarts ==
    { [hits |-> 998, misses |-> 0], [hits |-> 333, misses |-> 666],
      [hits |-> 0, misses |-> 999], [hits |-> 1000, misses |-> 1998] }

InitStats ==
    /\ \E s \in Scenarios :
          /\ config = Constructor(s.config)
          /\ tickStep = s.step
    /\ \E c \in StatsStarts : cacheHits = c.hits /\ cacheMisses = c.misses
    /\ app = "null"
    /\ messageCache = <<>>
    /\ now = 0
    /\ ticks = 0
    /\ pending = {}
    /\ bot = NoBot
    /\ dispatch = <<>>
    /\ log = NoDispatch
    /\ adapters = SlackImported
    /\ registryLog = <<[op |-> "register", platform |-> "slack", adapter |-> "imported"]>>
    /\ made = NoCreate
    /\ discord = NoDiscord
    /\ last = NoCall

StatsRefs == {StringRef("m1"), StringRef("m2")}

\* The adapter is connected again; the message m1 arrives and string refs,
\* of m1 and of a message never seen, are resolved.
NextStats ==
    \/ connect(SocketCredentials)
    \/ \E p \in pending : connectDone(p, "ok")
    \/ \E m \in { x \in InboundMessages : x.ts = "m1" } : onSlackMessage(m)
    \/ \E r \in StatsRefs : Idle /\ editMessage(r, "adapter")
    \/ \E r \in StatsRefs : Idle /\ addReaction(r, "adapter")
    \/ \E p \in pending, o \in Settled : editMessageDone(p, o)
    \/ \E p \in pending, o \in Settled : reactionDone(p, o)

StatsSpec == InitStats /\ [][NextStats]_vars

Total == cacheHits + cacheMisses

\* C23: a hit-rate observation is written exactly by the resolution that
\* takes the number of resolutions to a positive multiple of 1000: every such
\* resolution writes one, no other step writes any, the total grows by one
\* per resolution (so no multiple is reached twice), and the observation
\* reports the hits and the total of that moment and their quotient, as a
\* percentage rounded to the nearest tenth.
C23_ObservationEveryInterval ==
    [][/\ Total' = IF ResolutionStep THEN Total + 1 ELSE Total
       /\ last'.observed.emitted
             <=> ResolutionStep /\ Total' > 0 /\ Total' % 1000 = 0
       /\ last'.observed.emitted
             => /\ last'.observed.hits = cacheHits'
                /\ last'.observed.total = Total'
                /\ LET off == last'.observed.rate * Total' - 1000 * cacheHits'
                   IN  2 * off <= Total' /\ -2 * off <= Total']_vars

\* The 3000th resolution, a hit, has reported 1001 hits of 3000 as 33.4 %.
C23_Witness ==
    /\ last.lookup = "hit"
    /\ last.observed = [emitted |-> TRUE, rate |-> 334, hits |-> 1001, total |-> 3000]
    /\ cacheHits = 1001 /\ cacheMisses = 1999

-----------------------------------------------------------------------------
(* Two Bots created for one platform: properties of FacadesSpec *)

\* createBot({platform: 'slack', credentials}) called when a Bot exists
\* already: registry.get('slack') is the adapter the first call found, and
\* it is connected again.
createBotAgain(credentials) ==
    /\ bot.exists
    /\ Len(bot.bound) < MaxBots
    /\ ChooseAdapter("slack", Undefined) = "imported"
    /\ connectCall(credentials, "createBot")
    /\ UNCHANGED bot

\* The first Bot sends messages and is stopped; the second Bot refers to
\* messages by id.  No message arrives from the workspace: the entries of
\* the cache are those of the messages the first Bot sent.
NextFacades ==
    \/ createBot(SocketCredentials)
    \/ createBotAgain(SocketCredentials)
    \/ \E p \in pending : connectDone(p, "ok")
    \/ Idle /\ sendMessage(Sent.channelId, Undefined, "bot")
    \/ \E p \in pending, o \in Settled : sendMessageDone(p, o, Sent.id, TRUE)
    \/ Idle /\ editMessage(StringRef(Sent.id), "bot2")
    \/ Idle /\ addReaction(StringRef(Sent.id), "bot2")
    \/ \E p \in pending, o \in Settled : editMessageDone(p, o)
    \/ \E p \in pending, o \in Settled : reactionDone(p, o)
    \/ stop
    \/ \E p \in pending : disconnectDone(p, "ok")

\* The registered adapter, and no Bot yet.
InitFacades ==
    /\ InitAdapter({RegisteredScenario})
    /\ bot = NoBot

FacadesSpec == InitFacades /\ [][NextFacades]_vars

\* The cache the n-th Bot's adapter resolves string refs in, and whether
\* that adapter is connected.
CacheOf(n) == IF bot.bound[n] = "imported" THEN messageCache ELSE <<>>
ConnectedOf(n) == bot.bound[n] = "imported" /\ isConnected

\* C24: no two Bots share a reference cache: with two Bots created by
\* createBot for slack without an adapter of their own, a message sent
\* through the first is not resolved by its id through the second, and
\* stop() on the first neither clears the cache the second uses nor
\* disconnects the second.
C24_BotsShareNoCache ==
    [][/\ (/\ last'.via = "bot2" /\ last'.phase = "call"
           /\ last'.op \in RefOps /\ last'.ref = "string")
          => last'.lookup # "hit"
       /\ (last'.op = "disconnect" /\ last'.via = "stop" /\ Len(bot.bound) >= 2)
          => /\ CacheOf(2)' = CacheOf(2)
             /\ ConnectedOf(2) => ConnectedOf(2)']_vars

\* The second Bot has resolved the id of a message the first Bot sent.
C24_ResolvedThroughOther ==
    /\ last.via = "bot2" /\ last.lookup = "hit"
    /\ Len(bot.bound) = 2 /\ bot.bound[1] = bot.bound[2]
    /\ \E p \in pending : p.via = "bot2" /\ p.id = Sent.id /\ p.channelId = Sent.channelId

\* stop() on the first Bot has completed: the second Bot, which had
\* resolved an id, is disconnected and its cache is empty.
C24_StopReachedOther ==
    /\ last.op = "disconnect" /\ last.via = "stop" /\ last.phase = "done"
    /\ Len(bot.bound) = 2 /\ cacheHits >= 1
    /\ ~ConnectedOf(2) /\ CacheOf(2) = <<>>

-----------------------------------------------------------------------------
(* The Bot's subscription across stop and start: properties of CycleSpec *)

\* The registered adapter with a Bot constructed on it directly, or with
\* createBot still to be called.
InitCycle ==
    /\ InitAdapter({RegisteredScenario})
    /\ bot \in {NoBot, NewBot(SocketCredentials)}

\* The Bot is started, stopped and started again while handlers are
\* registered and events arrive.
NextCycle ==
    \/ createBot(SocketCredentials)
    \/ start
    \/ stop
    \/ \E p \in pending, o \in {"ok", "throw"} : connectDone(p, o)
    \/ \E p \in pending : disconnectDone(p, "ok")
    \/ \E h \in {"h1", "h2"} : onMessage(h)
    \/ onEvent("h1")
    \/ \E m \in { x \in InboundMessages : x.ts = "m1" } : onSlackMessage(m)
    \/ onSlackReaction
    \/ \E i \in 1..Len(dispatch) : handleEventResume(i)

CycleSpec == InitCycle /\ [][NextCycle]_vars

\* The adapter has emitted an event in this step.
EmitStep == last'.op \in {"message", "reaction"}

\* The runs of handleEvent in progress, and the one that finished last.
Runs == Dispatches \cup IF log.type = "none" THEN {} ELSE {log}

\* C25: a Bot is subscribed to its adapter exactly once from its
\* construction on, stop() and start() cycles included; every event the
\* adapter emits reaches the Bot's handleEvent exactly once, and that run
\* invokes no handler registration twice and, by its end, every handler that
\* was registered for the event's type or as a wildcard when it began
\* exactly once.
C25_SubscribedOnceDispatchedOnce ==
    /\ [](bot.exists => bot.subscribed = 1)
    /\ [](\A d \in Runs :
             /\ \A key \in {d.type, "*"} :
                   \A i \in 1..Len(bot.handlers[key]) :
                      Cardinality(Invocations(d, key, i)) <= 1
             /\ d.status = "returned"
                   => /\ \A i \in 1..d.regT : Cardinality(Invocations(d, d.type, i)) = 1
                      /\ \A i \in 1..d.regW : Cardinality(Invocations(d, "*", i)) = 1)
    /\ [][(EmitStep /\ bot.exists)
            => /\ last'.handled = 1
               /\ \/ dispatch' = dispatch /\ Finished(log')
                  \/ Len(dispatch') = Len(dispatch) + 1]_vars

\* The Bot was stopped and started again, the message m1 arrived after
\* that, and its dispatch has run both message handlers and the wildcard
\* handler, each once.
C25_Witness ==
    /\ bot.cycle = "restarted" /\ app = "running"
    /\ Has(messageCache, "m1")
    /\ log.type = "message" /\ log.status = "returned"
    /\ log.regT = 2 /\ log.regW = 1
    /\ Len(log.invoked) = 3

-----------------------------------------------------------------------------
(* The messages the adapter hands out: properties of ReturnSpec *)

ReturnRefs == {StringRef("m1"), FullRef(Sent)}

\* Messages are sent, edited and threaded and messages arrive; the response
\* message of the transport carries its channel or not.
NextReturn ==
    \/ connect(SocketCredentials)
    \/ \E p \in pending : connectDone(p, "ok")
    \/ \E c \in Channels, t \in ThreadOptions : Idle /\ sendMessage(c, t, "adapter")
    \/ \E r \in ReturnRefs : Idle /\ editMessage(r, "adapter")
    \/ \E r \in ReturnRefs : Idle /\ createThread(r, "adapter")
    \/ \E p \in pending, o \in Settled, w \in BOOLEAN : sendMessageDone(p, o, Sent.id, w)
    \/ \E p \in pending, o \in Settled, w \in BOOLEAN : editMessageDoneWith(p, o, w)
    \/ \E p \in pending, o \in Settled, w \in BOOLEAN : createThreadDone(p, o, "m2", w)
    \/ \E m \in InboundMessages : onSlackMessage(m)

ReturnSpec == Init /\ [][NextReturn]_vars

NonEmpty(x) == x \notin {Undefined, ""}

\* The step has returned a message in a success Result or delivered one to
\* the handlers.
HandsOut == last.message # NoMessage

\* C26: every message the adapter returns from a successful sendMessage,
\* editMessage or createThread or delivers in a message event, and every
\* entry of the cache, has a non-empty id and a non-empty channelId.
C26_IdAndChannelNeverEmpty ==
    /\ HandsOut => NonEmpty(last.message.id) /\ NonEmpty(last.message.channelId)
    /\ \A i \in 1..Len(messageCache) :
          NonEmpty(messageCache[i].key) /\ NonEmpty(messageCache[i].channelId)

\* C26 for sendMessage and for message events alone.
C26_SentAndReceivedNeverEmpty ==
    (HandsOut /\ last.op \in {"sendMessage", "message"})
    => /\ NonEmpty(last.message.id) /\ NonEmpty(last.message.channelId)
       /\ Has(messageCache, last.message.id)
       /\ NonEmpty(Entry(messageCache, last.message.id).channelId)

\* sendMessage has returned a message sent to c2 in the thread m1, with
\* that channel, and no entry of the cache has an empty channel.
C26_SendFillsChannel ==
    /\ last.op = "sendMessage" /\ last.res = "ok"
    /\ last.message = [id |-> Sent.id, channelId |-> "c2", threadId |-> "m1"]
    /\ \A i \in 1..Len(messageCache) : NonEmpty(messageCache[i].channelId)

\* createThread has returned, and cached, a reply whose channelId is empty.
C26_ThreadReplyWithoutChannel ==
    /\ last.op = "createThread" /\ last.res = "ok"
    /\ last.message.channelId = ""
    /\ Has(messageCache, last.message.id)
    /\ Entry(messageCache, last.message.id).channelId = ""

\* editMessage has returned the edited message with an empty channelId.
C26_EditedWithoutChannel ==
    /\ last.op = "editMessage" /\ last.res = "ok"
    /\ NonEmpty(last.message.id) /\ last.message.channelId = ""

-----------------------------------------------------------------------------
(* The size of the cache: properties of SizeSpec *)

\* SlackConfig values: cacheSize 0, undefined, left out, 1 and 2.
SizeScenarios ==
    { [config |-> [cacheSize |-> Num(0), cacheTTL |-> Num(1)], step |-> 1],
      [config |-> [cacheSize |-> UndefOpt, cacheTTL |-> NoOpt], step |-> DefaultCacheTTL + 1],
      [config |-> [cacheSize |-> NoOpt, cacheTTL |-> NoOpt], step |-> DefaultCacheTTL + 1],
      [config |-> [cacheSize |-> Num(1), cacheTTL |-> NoOpt], step |-> DefaultCacheTTL + 1],
      [config |-> [cacheSize |-> Num(2), cacheTTL |-> Num(1)], step |-> 1] }

InitSize ==
    /\ InitAdapter(SizeScenarios)
    /\ bot = NoBot

\* Messages arrive and are sent, and are referred to by id as time passes.
NextSize ==
    \/ Idle /\ Tick
    \/ connect(SocketCredentials)
    \/ \E p \in pending : connectDone(p, "ok")
    \/ \E m \in InboundMessages : onSlackMessage(m)
    \/ Idle /\ sendMessage("c1", Undefined, "adapter")
    \/ \E p \in pending, o \in Settled, ts \in ResponseIds : sendMessageDone(p, o, ts, TRUE)
    \/ \E m \in MsgIds : Idle /\ editMessage(StringRef(m), "adapter")
    \/ \E p \in pending, o \in Settled : editMessageDone(p, o)

SizeSpec == InitSize /\ [][NextSize]_vars

\* The cacheSize the adapter was constructed with (the spread leaves in
\* config.cacheSize what the caller gave): 1000 when none was given.
ConfiguredSize ==
    IF config.cacheSize.tag = "number" THEN config.cacheSize.n ELSE DefaultCacheSize

\* C27: the cache never holds more entries than the configured cacheSize,
\* nor more than 1000 when no cacheSize is configured, whatever the
\* SlackConfig, cacheSize 0 and cacheSize undefined included.
C27_SizeWithinCapacity == Len(messageCache) <= ConfiguredSize

\* C27 for a cacheSize that is a positive number or is left out: the cache
\* is built with that maximum.
C27_WithinCapacityWhenPositive ==
    (config.cacheSize.tag = Absent \/ (config.cacheSize.tag = "number" /\ config.cacheSize.n > 0))
    => /\ Len(messageCache) <= ConfiguredSize
       /\ CacheMax = ConfiguredSize

\* Constructed with cacheSize 0, the cache holds three entries.
C27_ZeroIsUnbounded ==
    /\ config.cacheSize = Num(0)
    /\ Len(messageCache) = 3

\* Constructed with cacheSize undefined, the cache is built without a
\* maximum: it holds three entries and nothing limits it to 1000.
C27_UndefinedIsUnbounded ==
    /\ config.cacheSize = UndefOpt
    /\ CacheMax = 0
    /\ Len(messageCache) = 3

\* Constructed with cacheSize 2, the cache holds two entries after a third
\* id was inserted.
C27_FullAtCapacity ==
    /\ config.cacheSize = Num(2) /\ Len(messageCache) = 2
    /\ last.evicted # {}


-----------------------------------------------------------------------------
(* C28, C29: the Result type *)

\* Whether x is a Result built by ok or err.
IsResult(x) == "ok" \in DOMAIN x

\* How many Results are nested in x.
RECURSIVE Nesting(_)
Nesting(x) ==
    IF ~IsResult(x) THEN 0
    ELSE 1 + Nesting(IF x.ok THEN x.value ELSE x.error)

\* The values and errors the functions are called with: plain values, Error
\* instances of two classes and the Result the last call returned.
PlainValues ==
    { JsUndefined, JsNull, JsString("text"), JsString(""), JsNumber(0), JsNumber(42),
      JsObject, JsBareObject,
      ErrorValue("Error", "boom"), ErrorValue("MessageSendError", "boom") }

Arguments ==
    PlainValues \cup
    (IF IsResult(last.returned) /\ Nesting(last.returned) < MaxNesting
     THEN {last.returned} ELSE {})

\* The call record of a function of the Result module.
ResultCall(op, given, returned, answer) ==
    [NoCall EXCEPT !.op = op, !.phase = "return", !.given = given,
                   !.returned = returned, !.answer = answer]

BoolText(b) == IF b THEN "true" ELSE "false"

\* ok(value)
okCall(value) ==
    /\ last' = ResultCall("ok", value, ok(value), "none")
    /\ UNCHANGED <<slackVars, discord>>

\* err(error)
errCall(error) ==
    /\ last' = ResultCall("err", error, err(error), "none")
    /\ UNCHANGED <<slackVars, discord>>

\* isOk(result), on the Result the last call returned
isOkCall ==
    /\ IsResult(last.returned)
    /\ last' = ResultCall("isOk", last.returned, JsUndefined, BoolText(isOk(last.returned)))
    /\ UNCHANGED <<slackVars, discord>>

\* isErr(result), on the Result the last call returned
isErrCall ==
    /\ IsResult(last.returned)
    /\ last' = ResultCall("isErr", last.returned, JsUndefined, BoolText(isErr(last.returned)))
    /\ UNCHANGED <<slackVars, discord>>

\* await wrapAsync(fn), from the call to the settlement of its promise:
\* the function awaits fn() and touches nothing but its own locals.
wrapAsyncCall(fn) ==
    /\ LET settled == wrapAsync(fn)
       IN last' = [ResultCall("wrapAsync", fn,
                              IF settled.state = "resolved" THEN settled.with ELSE JsUndefined,
                              "none")
                   EXCEPT !.res = settled.state,
                          !.cause = IF settled.state = "rejected" THEN settled.with.class ELSE @]
    /\ UNCHANGED <<slackVars, discord>>

NextResult ==
    \/ \E value \in Arguments : okCall(value)
    \/ \E error \in Arguments : errCall(error)
    \/ isOkCall
    \/ isErrCall
    \/ \E kind \in {"resolves", "rejects", "throws"}, v \in Arguments : wrapAsyncCall(Fn(kind, v))

ResultSpec == Init /\ [][NextResult]_vars

\* C28: ok(v) has ok = true and value = v and nothing else, err(e) has
\* ok = false and error = e and nothing else; isOk is true and isErr false
\* on the first, isErr true and isOk false on the second; on every Result
\* isOk is the negation of isErr; and a call of ok or err changes nothing
\* of the program's state.
C28_ExactlyOneVariant ==
    [][ /\ last'.op = "ok" =>
            /\ DOMAIN last'.returned = {"ok", "value"}
            /\ last'.returned.ok = TRUE
            /\ last'.returned.value = last'.given
            /\ isOk(last'.returned) /\ ~isErr(last'.returned)
        /\ last'.op = "err" =>
            /\ DOMAIN last'.returned = {"ok", "error"}
            /\ last'.returned.ok = FALSE
            /\ last'.returned.error = last'.given
            /\ isErr(last'.returned) /\ ~isOk(last'.returned)
        /\ last'.op = "isOk" =>
            /\ last'.answer = BoolText(last'.given.ok)
            /\ last'.answer = BoolText(~isErr(last'.given))
        /\ last'.op = "isErr" =>
            /\ last'.answer = BoolText(~last'.given.ok)
            /\ last'.answer = BoolText(~isOk(last'.given))
        /\ last'.op \in {"ok", "err"} => UNCHANGED <<slackVars, discord>>
      ]_vars

\* isErr answered true on an err Result that carries an ok Result as its
\* error.
C28_Witness ==
    /\ last.op = "isErr" /\ last.answer = "true"
    /\ last.given = err(ok(JsString("text")))


\* What the claim promises of a settled call of wrapAsync: ok(v) when fn
\* resolved with v, err(e) with the same e when fn threw or rejected with an
\* Error, err of a new Error with message String(x) when it threw or
\* rejected with another value x.
Promised(call) ==
    /\ call.res = "resolved"
    /\ call.given.kind = "resolves" => call.returned = ok(call.given.v)
    /\ (call.given.kind # "resolves" /\ InstanceOfError(call.given.v))
           => call.returned = err(call.given.v)
    /\ (call.given.kind # "resolves" /\ ~InstanceOfError(call.given.v))
           => /\ call.returned.ok = FALSE
              /\ InstanceOfError(call.returned.error)
              /\ call.returned.error.class = "Error"
              /\ call.returned.error.s = StringOf(call.given.v)

\* C29: wrapAsync(fn) never rejects: it yields ok(v) when fn resolves with
\* v, err(e) with the same error when fn throws or rejects with an Error e,
\* and err of a new Error whose message is String(x) when fn throws a
\* non-Error value x.
C29_WrapAsyncNeverRejects == last.op = "wrapAsync" => Promised(last)

\* C29 for every fn but one that throws or rejects with a value String()
\* cannot convert.
C29_SettlesWhenConvertible ==
    (last.op = "wrapAsync" /\ ~(last.given.kind # "resolves" /\ StringThrows(last.given.v)))
    => Promised(last)

\* fn threw an object without a prototype and the promise of wrapAsync
\* rejected with the TypeError of String().
C29_RejectedWithTypeError ==
    /\ last.op = "wrapAsync" /\ last.given = Fn("throws", JsBareObject)
    /\ last.res = "rejected" /\ last.cause = "TypeError"

\* fn threw the number 42 and wrapAsync resolved with err of a new Error
\* with message "42".
C29_WrappedNonError ==
    /\ last.op = "wrapAsync" /\ last.given = Fn("throws", JsNumber(42))
    /\ last.res = "resolved" /\ last.returned = err(ErrorValue("Error", "42"))

\* fn rejected with a MessageSendError and wrapAsync resolved with err of
\* that error.
C29_SameError ==
    /\ last.op = "wrapAsync"
    /\ last.given = Fn("rejects", ErrorValue("MessageSendError", "boom"))
    /\ last.res = "resolved" /\ last.returned.error = last.given.v

\* fn resolved with a Result and wrapAsync resolved with ok of it.
C29_ResolvedWithResult ==
    /\ last.op = "wrapAsync" /\ last.given.kind = "resolves"
    /\ IsResult(last.given.v) /\ last.returned = ok(last.given.v)


-----------------------------------------------------------------------------
(* C30: message references on the Discord adapter *)

DiscordMessageOps == {"editMessage", "deleteMessage", "addReaction", "removeReaction"}

\* The MessageRefs the operations are called with: a message id, a message
\* object and a message object whose channelId is empty.
DiscordRefs ==
    { StringRef("m1"),
      [kind |-> "full", id |-> "m1", channelId |-> "c1", threadId |-> Undefined],
      [kind |-> "full", id |-> "m1", channelId |-> "", threadId |-> Undefined] }

\* The class of the error an operation of the Discord adapter returns.
DiscordErrorClass(op) ==
    CASE op = "editMessage" -> "MessageEditError"
      [] op = "deleteMessage" -> "MessageDeleteError"
      [] OTHER -> "ReactionError"

\* The call record of a message operation of the Discord adapter.
DiscordCall(op, phase, ref, res, cause) ==
    [NoCall EXCEPT !.op = op, !.via = "discord", !.phase = phase, !.ref = ref,
                   !.res = res, !.cause = cause,
                   !.error = IF res \in {"ok", "pending"} THEN NoError
                             ELSE [class |-> res, platform |-> "discord",
                                   idFrom |-> IF res = "ConnectionError" THEN "none" ELSE "ref",
                                   says |-> {cause}]]

\* `const channelId = typeof messageRef === 'string' ? null : messageRef.channelId`
DiscordChannelOf(ref) == IF ref.kind = "string" THEN "null" ELSE ref.channelId

\* editMessage, deleteMessage, addReaction and removeReaction up to
\* `await this.client.channels.fetch(channelId)`: without a client the
\* call returns a ConnectionError, without a channelId the error of the
\* operation.
discordOperation(op, ref) ==
    /\ op \in DiscordMessageOps
    /\ IF discord.client = "null"
       THEN /\ last' = DiscordCall(op, "call", ref, "ConnectionError", "Not connected")
            /\ UNCHANGED discord
       ELSE IF DiscordChannelOf(ref) \in {"null", ""}
       THEN /\ last' = DiscordCall(op, "call", ref, DiscordErrorClass(op),
                                   "channel context not found")
            /\ UNCHANGED discord
       ELSE /\ Cardinality(discord.ops) < MaxPending
            /\ [op |-> op, ref |-> ref, stage |-> "channel"] \notin discord.ops
            /\ discord' = [discord EXCEPT
                              !.ops = @ \cup {[op |-> op, ref |-> ref, stage |-> "channel"]}]
            /\ last' = DiscordCall(op, "call", ref, "pending", "none")
    /\ UNCHANGED slackVars

\* An operation after the request it awaits settles.  channels.fetch gives
\* a channel with messages ("ok"), another channel or none ("other") or
\* throws; messages.fetch and the request of the operation give their value
\* or throw; removeReaction finds no reaction of that emoji in the
\* message's cache ("other") and returns, or reads this.client.user to
\* remove the bot's reaction.  Whatever is thrown is wrapped in the error
\* of the operation.
discordOperationDone(p, outcome) ==
    /\ p \in discord.ops
    /\ outcome \in {"ok", "other", "throw"}
    /\ outcome = "other" =>
          \/ p.stage = "channel"
          \/ p.stage = "message" /\ p.op = "removeReaction"
    /\ LET rest == discord.ops \ {p}
           next == [p EXCEPT !.stage = IF @ = "channel" THEN "message" ELSE "request"]
           failed(cause) ==
               /\ discord' = [discord EXCEPT !.ops = rest]
               /\ last' = DiscordCall(p.op, "done", p.ref, DiscordErrorClass(p.op), cause)
           returned ==
               /\ discord' = [discord EXCEPT !.ops = rest]
               /\ last' = DiscordCall(p.op, "done", p.ref, "ok", "none")
           goesOn ==
               /\ next \notin rest
               /\ discord' = [discord EXCEPT !.ops = rest \cup {next}]
               /\ last' = DiscordCall(p.op, "done", p.ref, "pending", "none")
       IN  IF outcome = "throw" THEN failed("request failed")
           ELSE IF p.stage = "channel"
           THEN IF outcome = "other" THEN failed("channel not found or not a text channel")
                ELSE goesOn
           ELSE IF p.stage = "message"
           THEN IF p.op # "removeReaction" THEN goesOn
                ELSE IF outcome = "other" THEN returned
                ELSE IF discord.client = "null" THEN failed("request failed")
                ELSE goesOn
           ELSE returned
    /\ UNCHANGED slackVars

\* A Discord adapter connects, is disconnected, and its message operations
\* are called with every MessageRef.
NextDiscordOps ==
    \/ \E c \in DiscordCredentialSet : discordConnect(c)
    \/ \E o \in {"ok", "throw"} : discordLoginDone(o)
    \/ discordReady
    \/ discordDisconnect
    \/ \E op \in DiscordMessageOps, ref \in DiscordRefs : discordOperation(op, ref)
    \/ \E p \in discord.ops, o \in {"ok", "other", "throw"} : discordOperationDone(p, o)

DiscordOpsSpec == InitDiscord /\ [][NextDiscordOps]_vars

\* A call of a message operation of the Discord adapter with a message id.
WithStringId ==
    /\ last.via = "discord" /\ last.op \in DiscordMessageOps
    /\ last.ref.kind = "string"

\* C30: on the Discord adapter editMessage, deleteMessage, addReaction and
\* removeReaction called with a string message id never fail for lack of
\* channel context.
C30_StringIdNeverLacksChannel ==
    WithStringId => last.cause # "channel context not found"

\* What holds instead: called with a string id an operation never issues a
\* request and never succeeds; it fails for lack of channel context whenever
\* the adapter has a client.
C30_StringIdNeverWorks ==
    WithStringId =>
        /\ last.phase = "call" /\ last.res \notin {"ok", "pending"}
        /\ \A p \in discord.ops : p.ref.kind # "string"
        /\ last.res # "ConnectionError" => last.cause = "channel context not found"

\* Called with a message object that names its channel, no operation fails
\* for lack of channel context.
C30_MessageObjectHasContext ==
    (last.via = "discord" /\ last.op \in DiscordMessageOps
       /\ last.ref.kind = "full" /\ last.ref.channelId # "")
    => last.cause # "channel context not found"

\* On a connected adapter editMessage was called with a message id and
\* returned a MessageEditError for lack of channel context.
C30_EditByIdRejected ==
    /\ discord.client = "ready"
    /\ last.op = "editMessage" /\ last.via = "discord" /\ last.ref = StringRef("m1")
    /\ last.res = "MessageEditError" /\ last.cause = "channel context not found"

\* On a connected adapter removeReaction was called with a message id and
\* returned a ReactionError for lack of channel context.
C30_RemoveReactionByIdRejected ==
    /\ discord.client = "ready"
    /\ last.op = "removeReaction" /\ last.via = "discord" /\ last.ref = StringRef("m1")
    /\ last.res = "ReactionError" /\ last.cause = "channel context not found"

\* editMessage called with the message object of the same message
\* succeeded.
C30_EditByObjectWorked ==
    /\ last.op = "editMessage" /\ last.via = "discord"
    /\ last.ref.kind = "full" /\ last.ref.id = "m1" /\ last.res = "ok"


-----------------------------------------------------------------------------
(* C31: the transport connect selects *)

\* Adapters constructed without socketMode, with socketMode true and with
\* socketMode false.
TransportScenarios ==
    { [config |-> [cacheSize |-> NoOpt, cacheTTL |-> NoOpt], step |-> DefaultCacheTTL + 1],
      [config |-> [cacheSize |-> NoOpt, cacheTTL |-> NoOpt, socketMode |-> "true"],
       step |-> DefaultCacheTTL + 1],
      [config |-> [cacheSize |-> NoOpt, cacheTTL |-> NoOpt, socketMode |-> "false"],
       step |-> DefaultCacheTTL + 1] }

\* Credentials with every combination of appToken and signingSecret, and
\* credentials without a bot token.
TransportCredentials ==
    CredentialSet \cup {Creds("xoxb", "xapp", "secret")}

InitTransport ==
    /\ InitAdapter(TransportScenarios)
    /\ bot = NoBot

\* The adapter is connected and disconnected, and messages are sent over
\* the transport it connected with.
NextTransport ==
    \/ \E c \in TransportCredentials : connect(c)
    \/ \E p \in pending, o \in {"ok", "throw"} : connectDone(p, o)
    \/ adapterDisconnect
    \/ \E p \in pending, o \in {"ok", "throw"} : disconnectDone(p, o)
    \/ \E c \in Channels : Idle /\ sendMessage(c, Undefined, "adapter")
    \/ \E p \in pending, o \in Settled, ts \in ResponseIds : sendMessageDone(p, o, ts, TRUE)

TransportSpec == InitTransport /\ [][NextTransport]_vars

\* A connect that built its App.
BuiltApp == last.op = "connect" /\ last.phase = "call" /\ last.res = "pending"

\* C31: with socketMode true connect uses Socket Mode; with socketMode false
\* it uses the Events API whenever a signingSecret is supplied; only when
\* socketMode is not specified is the transport derived from the
\* credentials (Socket Mode if and only if an appToken is present).
C31_SocketModeSelectsTransport ==
    BuiltApp =>
        /\ config.socketMode = "true" => last.transport = "socket"
        /\ (config.socketMode = "false" /\ last.with.signingSecret # Undefined)
               => last.transport = "events"
        /\ config.socketMode = Absent
               => (last.transport = "socket" <=> last.with.appToken # Undefined)

\* A connect with credentials that carry a signingSecret and no appToken
\* never fails on an adapter constructed with socketMode false, and with an
\* appToken never on one constructed with socketMode true.
C31_RaisesOnlyWithoutItsToken ==
    (last.op = "connect" /\ last.phase = "call" /\ last.res = "raised:ConnectionError"
       /\ last.with.botToken # Undefined)
    => /\ config.socketMode = "true" => last.with.appToken = Undefined
       /\ config.socketMode = "false" => last.with.appToken = Undefined
                                         /\ last.with.signingSecret = Undefined

\* What holds of the transport: Socket Mode if and only if the credentials
\* carry an appToken, whatever socketMode is; socketMode true only turns
\* the Events API of credentials without appToken into a failure.
C31_TransportFollowsCredentials ==
    /\ BuiltApp => (last.transport = "socket" <=> last.with.appToken # Undefined)
    /\ BuiltApp => (last.transport = "events" <=>
                       (last.with.appToken = Undefined /\ config.socketMode # "true"))
    /\ (last.op = "connect" /\ last.phase = "call" /\ config.socketMode = "true"
          /\ last.with.botToken # Undefined /\ last.with.appToken = Undefined)
       => last.cause = "appToken required for Socket Mode"

\* Constructed with socketMode false and connected with appToken and
\* signingSecret, the adapter runs on Socket Mode.
C31_FalseButSocket ==
    /\ config.socketMode = "false" /\ BuiltApp
    /\ last.with = Creds("xoxb", "xapp", "secret")
    /\ last.transport = "socket"

\* Constructed with socketMode false and connected with a signingSecret
\* only, the adapter runs on the Events API.
C31_FalseAndEvents ==
    /\ config.socketMode = "false" /\ BuiltApp
    /\ last.with = EventsCredentials /\ last.transport = "events"

\* Constructed with socketMode true and connected with an appToken, the
\* adapter runs on Socket Mode.
C31_TrueAndSocket ==
    /\ config.socketMode = "true" /\ BuiltApp
    /\ last.with = SocketCredentials /\ last.transport = "socket"


-----------------------------------------------------------------------------
(* C32: isConnected after a connect that raised *)

\* Bot.start() of a Bot on the Discord adapter, up to the first await of
\* connect.
discordStart(credentials) ==
    IF discordIsConnected
    THEN /\ last' = Call("start", "discord", "call", "none", "ok", "already connected", "none")
         /\ UNCHANGED <<slackVars, discord>>
    ELSE discordConnect(credentials)

\* A Bot constructed on the Slack adapter with credentials of either
\* transport, with incomplete ones or with none.
InitRetry ==
    /\ InitAdapter({RegisteredScenario})
    /\ \E c \in CredentialSet \cup {NoCredentials} : bot = NewBot(c)

\* Bots on the Slack and on the Discord adapter are started and stopped;
\* the transport's start, stop and login succeed or throw.
NextRetry ==
    \/ start
    \/ stop
    \/ \E p \in pending, o \in {"ok", "throw"} : connectDone(p, o)
    \/ \E p \in pending, o \in {"ok", "throw"} : disconnectDone(p, o)
    \/ \E c \in DiscordCredentialSet : discordStart(c)
    \/ \E o \in {"ok", "throw"} : discordLoginDone(o)
    \/ discordReady
    \/ discordDisconnect

RetrySpec == InitRetry /\ [][NextRetry]_vars

\* The most recent call is a connect that raised.
ConnectRaised ==
    /\ last.op = "connect"
    /\ last.res \in {"raised:ConnectionError", "raised:TypeError"}

\* C32: after SlackAdapter.connect or DiscordAdapter.connect raises, for
\* whatever reason, isConnected() is false, so that a Bot.start() that
\* finds the adapter connected and does nothing finds an adapter whose
\* connect has succeeded.
C32_NotConnectedAfterConnectRaised ==
    /\ (ConnectRaised /\ last.via = "discord") => ~discordIsConnected
    /\ (ConnectRaised /\ last.via # "discord") => ~isConnected
    /\ (last.op = "start" /\ last.via = "bot" /\ last.cause = "already connected"
          /\ NoLifecyclePending)
       => app = "running"
    /\ (last.op = "start" /\ last.via = "discord" /\ last.cause = "already connected")
       => discord.client = "ready"

\* C32 on the Discord adapter, and on the Slack adapter for a connect that
\* raised before it built its App.
C32_HoldsButForStartFailure ==
    /\ (ConnectRaised /\ last.via = "discord") => ~discordIsConnected
    /\ (ConnectRaised /\ last.via # "discord" /\ last.phase = "call") => ~isConnected
    /\ (last.op = "start" /\ last.via = "discord" /\ last.cause = "already connected")
       => discord.client = "ready"

\* app.start() threw and connect raised a ConnectionError: isConnected()
\* is true.
C32_ConnectedAfterStartFailure ==
    /\ ConnectRaised /\ last.via = "start" /\ last.cause = "start failed"
    /\ isConnected

\* Bot.start() did nothing on an adapter whose only connect had failed.
C32_StartIsNoOpAfterFailure ==
    /\ last.op = "start" /\ last.via = "bot" /\ last.cause = "already connected"
    /\ app = "created" /\ pending = {}
    /\ bot.cycle = "none"

\* The Discord login failed and isConnected() is false: the next start()
\* connects again.
C32_DiscordRetries ==
    /\ ConnectRaised /\ last.via = "discord" /\ last.cause = "login failed"
    /\ discord.client = "created" /\ ~discordIsConnected


-----------------------------------------------------------------------------
(* C33: the order in which handlers observe events *)

\* A Bot constructed on the registered adapter.
InitOrder ==
    /\ InitAdapter({RegisteredScenario})
    /\ bot = NewBot(SocketCredentials)

\* Handlers are registered, the Bot is started, and messages and reactions
\* arrive whether or not the handlers of earlier events have settled.
NextOrder ==
    \/ start
    \/ \E p \in pending : connectDone(p, "ok")
    \/ \E h \in {"h1", "h3"} : onMessage(h)
    \/ onEvent("h1")
    \/ \E m \in { x \in InboundMessages : x.ts = "m1" } :
            onSlackMessageThen(m, EmitOverlapping("message"))
    \/ onSlackReactionThen(EmitOverlapping("reaction"))
    \/ \E i \in 1..Len(dispatch) : handleEventResume(i)

OrderSpec == InitOrder /\ [][NextOrder]_vars

\* The registration x, invoked for a later event, was subscribed to the
\* event of the run d when d started.
SubscribedTo(d, x) ==
    \/ x.key = d.type /\ x.pos <= d.regT
    \/ x.key = "*" /\ x.pos <= d.regW

\* The run dispatch[j], of an event emitted after that of dispatch[i], has
\* invoked a handler subscribed to both events that dispatch[i] has not
\* invoked yet.
Overtaken(i, j) ==
    \E k \in 1..Len(dispatch[j].invoked) :
        /\ SubscribedTo(dispatch[i], dispatch[j].invoked[k])
        /\ ~InSeq(dispatch[i].invoked, dispatch[j].invoked[k])

\* C33: if the adapter emits e1 before e2, every handler subscribed to both
\* is invoked with e1 before it is invoked with e2, whatever the number of
\* handlers and however long the handlers take.
C33_HandlersSeeEmissionOrder ==
    \A i \in 1..Len(dispatch) :
        \A j \in (i + 1)..Len(dispatch) : ~Overtaken(i, j)

\* What holds: a run invokes the first handler subscribed to its event
\* within the adapter's forEach, so the first handler sees the events in
\* emission order; and a Bot with a single handler sees them in order.
C33_FirstHandlerInOrder ==
    /\ \A i \in 1..Len(dispatch) : Len(dispatch[i].invoked) >= 1
    /\ \A i \in 1..Len(dispatch) :
          \A j \in (i + 1)..Len(dispatch) :
              dispatch[i].regT + dispatch[i].regW = 1 => ~Overtaken(i, j)

\* Two messages are being dispatched: the second message handler has been
\* invoked with the later message and not yet with the earlier one, whose
\* run still waits for the first handler.
C33_SecondHandlerOvertaken ==
    /\ Len(dispatch) = 2
    /\ dispatch[1].type = "message" /\ dispatch[2].type = "message"
    /\ dispatch[1].regT = 2 /\ Len(dispatch[1].invoked) = 1
    /\ Len(dispatch[2].invoked) = 2 /\ dispatch[2].invoked[2].key = "message"

\* A message and then a reaction are being dispatched: the wildcard handler
\* has been invoked with the reaction and not yet with the message.
C33_WildcardOvertaken ==
    /\ Len(dispatch) = 2
    /\ dispatch[1].type = "message" /\ dispatch[2].type = "reaction"
    /\ Overtaken(1, 2)
    /\ dispatch[2].invoked[Len(dispatch[2].invoked)].key = "*"


-----------------------------------------------------------------------------
(* C34: overlapping Bot.start() calls *)

\* Bot.start() on the Discord adapter while an earlier connect() is
\* suspended: isConnected() is false (no Client is ready), so connect() is
\* called again and builds a second Client in this.client.  An earlier
\* connect() that already waits for the ready event waits on the Client it
\* read from this.client then.
discordStartOverlapping(credentials) ==
    /\ discord.connecting # "none"
    /\ discord.overlap = "none" /\ discord.old = "none"
    /\ ~discordIsConnected
    /\ IF ~credentials.defined
       THEN /\ last' = Call("connect", "discord", "call", "none", "raised:TypeError",
                            "credentials undefined", "none")
            /\ UNCHANGED discord
       ELSE IF credentials.token = Undefined
       THEN /\ last' = Call("connect", "discord", "call", "none",
                            "raised:ConnectionError", "token required", "none")
            /\ UNCHANGED discord
       ELSE /\ discord' = [discord EXCEPT
                              !.old = IF discord.client = "null" THEN "none" ELSE discord.client,
                              !.client = "created",
                              !.overlap = "login",
                              !.waits = IF discord.connecting = "ready" THEN "old" ELSE @]
            /\ last' = Call("connect", "discord", "call", "none", "pending", "second client", "none")
    /\ UNCHANGED slackVars

\* The second connect() after its login settles.  A failed login leaves its
\* Client in this.client; that Client never fires ready.
discordOverlapLoginDone(outcome) ==
    /\ discord.overlap = "login"
    /\ outcome \in {"ok", "throw"}
    /\ IF outcome = "ok"
       THEN /\ discord' = [discord EXCEPT !.overlap = "ready"]
            /\ last' = Call("connect", "discord", "done", "none", "pending", "second client", "none")
       ELSE /\ discord' = [discord EXCEPT
                              !.overlap = "none",
                              !.waits = IF @ = "current" /\ discord.connecting # "none"
                                        THEN "never" ELSE @]
            /\ last' = Call("connect", "discord", "done", "none",
                            "raised:ConnectionError", "login failed", "none")
    /\ UNCHANGED slackVars

\* The second Client fires ready: the second connect() returns, and the
\* first one too when it waits on the same Client.
discordOverlapReady ==
    /\ discord.overlap = "ready"
    /\ discord.client = "created"
    /\ discord' = [discord EXCEPT
                      !.client = "ready", !.overlap = "none",
                      !.connecting = IF @ = "ready" /\ discord.waits = "current"
                                     THEN "none" ELSE @]
    /\ last' = Call("connect", "discord", "done", "none", "ok", "second client", "none")
    /\ UNCHANGED slackVars

\* The replaced Client fires ready: the first connect(), which waits on it,
\* returns.
discordOldReady ==
    /\ discord.connecting = "ready" /\ discord.waits = "old"
    /\ discord.old = "created"
    /\ discord' = [discord EXCEPT !.old = "ready", !.connecting = "none", !.waits = "current"]
    /\ last' = Call("connect", "discord", "done", "none", "ok", "none", "none")
    /\ UNCHANGED slackVars

\* start() is called on a Bot of the Slack adapter and on a Bot of the
\* Discord adapter at any moment, also before an earlier start() has
\* completed; on the Discord adapter at most two connects overlap.
NextOverlap ==
    \/ start
    \/ \E p \in pending, o \in {"ok", "throw"} : connectDone(p, o)
    \/ \E c \in DiscordCredentialSet : discord.overlap = "none" /\ discordStart(c)
    \/ \E c \in DiscordCredentialSet : discordStartOverlapping(c)
    \/ \E o \in {"ok", "throw"} : discordLoginDone(o)
    \/ \E o \in {"ok", "throw"} : discordOverlapLoginDone(o)
    \/ discordReady
    \/ discordOverlapReady
    \/ discordOldReady

OverlapSpec == InitOrder /\ [][NextOverlap]_vars

\* A start() has just resolved: it found the adapter connected, or its
\* connect() returned.
StartResolved(via) ==
    \/ last.op = "start" /\ last.res = "ok" /\ last.via = via
    \/ /\ last.op = "connect" /\ last.phase = "done" /\ last.res = "ok"
       /\ last.via = IF via = "bot" THEN "start" ELSE via

\* C34: overlapping Bot.start() calls start at most one connect sequence
\* and create at most one transport client, on the Slack and on the
\* Discord adapter, and every start() resolves only once the adapter is
\* connected.
C34_OverlappingStartsConnectOnce ==
    /\ Cardinality({ p \in pending : p.op = "connect" }) <= 1
    /\ ~(discord.connecting # "none" /\ discord.overlap # "none")
    /\ discord.old = "none"
    /\ StartResolved("bot") => app = "running"
    /\ StartResolved("discord") => discordIsConnected

\* What holds: on the Slack adapter a start() issued while a connect is in
\* progress finds isConnected() true, so one connect sequence and one App
\* at most; on the Discord adapter without an overlapping start() a start()
\* resolves on a ready Client.
C34_SlackConnectsOnce ==
    /\ Cardinality({ p \in pending : p.op = "connect" }) <= 1
    /\ (\E p \in pending : p.op = "connect") => isConnected
    /\ (StartResolved("discord") /\ discord.old = "none" /\ discord.overlap = "none"
          /\ last.cause # "second client")
       => discordIsConnected

\* On the Slack adapter the second start() resolved while the App of the
\* first one had not started.
C34_SlackStartResolvedEarly ==
    /\ last.op = "start" /\ last.via = "bot" /\ last.res = "ok"
    /\ app = "created"
    /\ \E p \in pending : p.op = "connect" /\ p.via = "start"

\* On the Discord adapter two connect sequences are in progress and two
\* Clients are alive.
C34_DiscordSecondClient ==
    /\ discord.connecting # "none" /\ discord.overlap = "login"
    /\ discord.old = "created" /\ discord.client = "created"

\* On the Discord adapter the first start() resolved on the replaced
\* Client while this.client is not ready.
C34_DiscordResolvedOnOldClient ==
    /\ StartResolved("discord") /\ last.cause = "none"
    /\ discord.old = "ready" /\ discord.client = "created"
    /\ ~discordIsConnected

\* On the Discord adapter the first connect() began to wait for ready after
\* the second Client had fired it: its start() never resolves.
C34_DiscordStartLeftWaiting ==
    /\ discord.connecting = "ready" /\ discord.waits = "current"
    /\ discord.client = "ready" /\ discord.overlap = "none"


-----------------------------------------------------------------------------
(* C35: operations on an adapter that is not connected: properties of OpsSpec *)

\* An operation of the adapter is called in this step.
OperationCalled == last'.op \in AdapterOps /\ last'.phase = "call"

\* C35: every operation of the Slack adapter called while the adapter is
\* not connected (isConnected() false: there is no App) returns a failure
\* Result with a ConnectionError 'Not connected', makes no transport call
\* and leaves the cache and the hit and miss counters as they were, for a
\* string ref as for a full message.
C35_NotConnectedTouchesNothing ==
    [][(OperationCalled /\ ~isConnected) =>
          /\ last'.res = "ConnectionError" /\ last'.cause = "Not connected"
          /\ last'.error.class = "ConnectionError"
          /\ pending' = pending
          /\ UNCHANGED <<messageCache, cacheHits, cacheMisses>>
      ]_vars

\* editMessage was called with a string id on an adapter that is not
\* connected and whose cache holds an entry (a message sent before the
\* disconnect, cached after it): it returned the ConnectionError and no
\* resolution was counted.
C35_Witness ==
    /\ ~isConnected /\ Len(messageCache) > 0
    /\ last.op = "editMessage" /\ last.ref = "string"
    /\ last.res = "ConnectionError" /\ last.cause = "Not connected"
    /\ cacheHits + cacheMisses = 0
    /\ pending = {}


-----------------------------------------------------------------------------
(* C36: the cache after a failed transport call: properties of OpsSpec *)

\* An operation returns a failure in this step after its transport call
\* settled with an error response or threw.
TransportFailed ==
    /\ last'.op \in AdapterOps /\ last'.phase = "done"
    /\ last'.res \notin {"ok", "pending"}

\* An operation reaches its transport call in this step.
TransportCalled ==
    /\ last'.op \in AdapterOps /\ last'.phase = "call"
    /\ last'.res = "pending"

\* C36: an operation whose transport call fails leaves the set of cache
\* entries as it was, from its call to its failure Result: a failed
\* sendMessage or createThread inserts nothing, a failed deleteMessage
\* removes nothing, so an id that resolved for the call is still in the
\* cache after the failure.
C36_FailureLeavesEntries ==
    [][ /\ TransportFailed => messageCache' = messageCache
        /\ TransportCalled => /\ Keys(messageCache') = Keys(messageCache)
                              /\ \A k \in Keys(messageCache) :
                                    Entry(messageCache', k) = Entry(messageCache, k)
      ]_vars

\* deleteMessage was called with the id m1, chat.delete failed, and m1 is
\* still in the cache.
C36_Witness ==
    /\ last.op = "deleteMessage" /\ last.phase = "done" /\ last.ref = "string"
    /\ last.res = "MessageDeleteError"
    /\ Has(messageCache, "m1")
    /\ cacheHits = 1


-----------------------------------------------------------------------------
(* C37: the cache of a disconnected adapter: properties of OpsSpec *)

\* C37: once disconnect() has completed the cache is empty and stays empty
\* until the next connect, a sendMessage or createThread that was waiting
\* on the transport when disconnect() ran included.
C37_EmptyWhileDisconnected == app = "null" => messageCache = <<>>

\* What holds: the step in which disconnect() completes leaves the cache
\* empty, and on a disconnected adapter only the continuation of a
\* sendMessage or createThread puts an entry into the cache (and only a
\* further disconnect() takes it out).
C37_OnlyLateInsertions ==
    [][ /\ (last'.op = "disconnect" /\ last'.res = "ok" /\ app' = "null")
              => messageCache' = <<>>
        /\ (app = "null" /\ app' = "null" /\ messageCache' # messageCache)
              => \/ /\ last'.op \in {"sendMessage", "createThread"}
                    /\ last'.phase = "done" /\ last'.res = "ok"
                 \/ last'.op = "disconnect"
      ]_vars

\* sendMessage was waiting on the transport when disconnect() completed;
\* its response arrived afterwards and the message m3 is in the cache of
\* the disconnected adapter.
C37_SentAfterDisconnect ==
    /\ app = "null"
    /\ last.op = "sendMessage" /\ last.phase = "done" /\ last.res = "ok"
    /\ Keys(messageCache) = {"m3"}

\* The same for the reply a createThread posted.
C37_ThreadAfterDisconnect ==
    /\ app = "null"
    /\ last.op = "createThread" /\ last.phase = "done" /\ last.res = "ok"
    /\ Keys(messageCache) = {"m3"}

\* The entry left behind is still in the cache when the adapter has been
\* connected again and the message m1 has arrived.
C37_LeftoverAfterReconnect ==
    /\ app = "running"
    /\ last.op = "message"
    /\ Keys(messageCache) = {"m1", "m3"}
    /\ Entry(messageCache, "m3").start <= Entry(messageCache, "m1").start


-----------------------------------------------------------------------------
(* C38: string refs inside the handlers of a message event *)

\* An adapter with a small cache (two entries and a TTL of 1 ms, or one
\* entry and no TTL) and a Bot constructed on it.
InitHandler ==
    /\ InitAdapter(Scenarios)
    /\ bot = NewBot(SocketCredentials)

\* The operation is called from a handler: the dispatch of an event is
\* waiting on a handler it has invoked.
InsideHandler == \E i \in 1..Len(dispatch) : dispatch[i].status = "awaiting"

\* The message handler h1 is registered (once or more) before the adapter
\* is connected; the message m1 and one with a subtype arrive; the handlers
\* of m1 edit and delete it by id, one operation at a time, while the clock
\* advances, the message m2 arrives and the adapter is disconnected.
NextHandler ==
    \/ dispatch = <<>> /\ connect(SocketCredentials)
    \/ \E p \in pending : connectDone(p, "ok")
    \/ InsideHandler /\ adapterDisconnect
    \/ \E p \in pending : disconnectDone(p, "ok")
    \/ app = "null" /\ dispatch = <<>> /\ onMessage("h1")
    \/ \E m \in { x \in InboundMessages : x.ts = "m1" \/ x.subtype # Undefined } :
            dispatch = <<>> /\ onSlackMessageThen(m, EmitOverlapping("message"))
    \/ \E m \in { x \in InboundMessages : x.ts = "m2" } :
            Len(dispatch) = 1 /\ onSlackMessageThen(m, EmitOverlapping("message"))
    \/ \E i \in 1..Len(dispatch) : handleEventResume(i)
    \/ Idle /\ InsideHandler /\ editMessage(StringRef("m1"), "bot")
    \/ Idle /\ InsideHandler /\ deleteMessage(StringRef("m1"), "bot")
    \/ \E p \in pending, o \in Settled : editMessageDone(p, o)
    \/ \E p \in pending, o \in Settled : deleteMessageDone(p, o)
    \/ InsideHandler /\ Tick

HandlerSpec == InitHandler /\ [][NextHandler]_vars

\* The message m has an entry that is not older than the TTL.
Live(c, t, m) == Has(c, m) /\ ~(CacheTtl # 0 /\ t - Entry(c, m).start > CacheTtl)

\* This step takes the entry of m away: deleteMessage succeeded for m, an
\* insertion into the full cache pushed it out, the clock passed its TTL, or
\* disconnect() cleared the cache.
TakenAway(m) ==
    \/ Succeeds("deleteMessage") /\ \E p \in pending \ pending' : p.id = m
    \/ m \in last'.evicted
    \/ now' # now
    \/ last'.op = "disconnect"

\* C38: the listener caches an inbound message before it invokes a handler
\* for it: the step that invokes the handlers leaves the message with a
\* fresh entry; from then on the entry goes only by a delete, an eviction
\* (by capacity or by age) or a disconnect; and while it is there, a
\* MessageRef operation a handler calls with the message's id on the
\* connected adapter is a hit.
C38_CachedBeforeHandlers ==
    [][ /\ last'.op = "message"
           => /\ Live(messageCache', now', last'.message.id)
              /\ Entry(messageCache', last'.message.id).channelId = last'.message.channelId
        /\ \A m \in MsgIds :
              (Live(messageCache, now, m) /\ ~Live(messageCache', now', m)) => TakenAway(m)
        /\ \A m \in MsgIds :
              (/\ InsideHandler
               /\ isConnected
               /\ Live(messageCache, now, m)
               /\ last'.phase = "call"
               /\ ResolvesVia(m, "bot"))
              => /\ last'.lookup = "hit"
                 /\ last'.res = "pending"
                 /\ cacheHits' = cacheHits + 1
                 /\ cacheMisses' = cacheMisses
      ]_vars

\* The message m1 has just arrived and its first handler has been invoked:
\* m1 is in the cache.
C38_InvokedWithEntry ==
    /\ last.op = "message" /\ last.message.id = "m1"
    /\ \E i \in 1..Len(dispatch) : Len(dispatch[i].invoked) = 1
    /\ Has(messageCache, "m1")

\* The second handler of a message event edited m1 by its id, and the
\* lookup was a hit.
C38_Witness ==
    /\ last.op = "editMessage" /\ last.phase = "call" /\ last.ref = "string"
    /\ last.lookup = "hit"
    /\ \E i \in 1..Len(dispatch) :
          /\ dispatch[i].type = "message" /\ dispatch[i].status = "awaiting"
          /\ Len(dispatch[i].invoked) = 2
    /\ \E p \in pending : p.op = "editMessage" /\ p.id = "m1"


-----------------------------------------------------------------------------
(* C39: the options of Bot.reply *)

\* reply called without options: the spread of undefined copies nothing.
NoOptions == [k \in {} |-> Undefined]

\* The options callers give to reply: none, a thread id of their own
\* (defined or undefined), platform options, and all of them together.
\* Platform options are objects the spread copies by reference.
ReplyOptionSets ==
    { NoOptions,
      [threadId |-> Undefined],
      [threadId |-> "m2"],
      [slack |-> "blocks"],
      [threadId |-> "m3", slack |-> "blocks", discord |-> "embeds"] }

\* A Bot on the registered adapter replies to messages, connected or not,
\* one reply at a time.
NextReply ==
    \/ connect(SocketCredentials)
    \/ \E p \in pending : connectDone(p, "ok")
    \/ \E message \in ReplyMessages, options \in ReplyOptionSets :
            Idle /\ reply(message, options)
    \/ \E p \in pending, o \in Settled, ts \in ResponseIds :
            sendMessageDone(p, o, ts, TRUE)

ReplySpec == InitOps /\ [][NextReply]_vars

\* C39: the options Bot.reply passes to the adapter's sendMessage are the
\* caller's options with threadId set to the thread of the message replied
\* to (its threadId, else its id), whatever threadId the caller gave: every
\* other option is passed with the value the caller gave it, and no option
\* is added or dropped.
C39_ReplyKeepsOtherOptions ==
    [][ReplyStep =>
         LET given == last'.reply.given
             passed == last'.reply.passed
         IN  /\ DOMAIN passed = DOMAIN given \cup {"threadId"}
             /\ passed["threadId"] = ThreadOf(last'.reply)
             /\ \A k \in DOMAIN given \ {"threadId"} : passed[k] = given[k]
             /\ last'.reply.toThread = passed["threadId"]
             /\ isConnected =>
                   \E p \in pending' \ pending : p.threadId = ThreadOf(last'.reply)
      ]_vars

\* reply to the unthreaded message m1 was given the thread id m3 and two
\* platform options: the request goes to the thread m1 with both options.
C39_Witness ==
    /\ last.op = "sendMessage" /\ last.phase = "call" /\ last.res = "pending"
    /\ last.reply.id = "m1"
    /\ DOMAIN last.reply.given = {"threadId", "slack", "discord"}
    /\ DOMAIN last.reply.passed = DOMAIN last.reply.given
    /\ last.reply.given["threadId"] = "m3"
    /\ last.reply.passed["threadId"] = "m1"
    /\ last.reply.passed["slack"] = "blocks"
    /\ last.reply.passed["discord"] = "embeds"

\* reply was called without options: threadId is the only option passed.
C39_WithoutOptions ==
    /\ last.op = "sendMessage" /\ last.phase = "call"
    /\ last.reply.id = "m2"
    /\ DOMAIN last.reply.given = {}
    /\ DOMAIN last.reply.passed = {"threadId"}
    /\ last.reply.passed["threadId"] = "m1"

====
